---- MODULE Spec2Model ----
(***************************************************************************)
(* Model of the package-inventory scraper of percona/telemetry-agent:     *)
(* the orchestrator (metrics/package.go), the Debian backend               *)
(* (metrics/package_debian.go) and the RHEL backend (package_rhel.go,      *)
(* kept here as src/unnamed/part_000).                                     *)
(*                                                                         *)
(* Text is a sequence of symbols.  A symbol is a one-character string, or  *)
(* a word the code never looks inside ("jammy", "packages").  Byte        *)
(* slices and Go strings are both such sequences; a nil slice and an empty *)
(* slice are both << >>.  Indexes are 1-based and "not found" is 0 where   *)
(* Go answers -1.                                                          *)
(***************************************************************************)
EXTENDS Integers, Sequences, FiniteSets, TLC

VARIABLES
    call,       \* harness: the function call under check
    ret,        \* harness: its result, NoRet before the call
    localOs,    \* scan: the OS string getOSInfo() reports
    path,       \* scan: the binaries exec.LookPath finds on PATH
    pc,         \* scan: position of ScrapeInstalledPackages
    pkgFunc,    \* scan: the backend query function selected
    idx,        \* scan: number of patterns already iterated
    toReturn,   \* scan: the result list being built
    results,    \* scan history: what pkgFunc returned for each pattern
    repoErrs,   \* scan history: failed repository queries, per package
    cmds,       \* scan history: the external commands executed
    logs,       \* scan history: the warnings logged
    fs,         \* files: the file system, a function from path to node
    now,        \* files: time.Now(), in ticks
    last,       \* files history: the last operation, its arguments and result
    mainPc,     \* agent: position of main inside SignalRunner
    runPc,      \* agent: position of the runner goroutine
    signals,    \* agent: the signals channel, of capacity 1
    received,   \* agent history: SIGINT and SIGTERM sent to the process so far
    cancelled,  \* agent: ctx.Done() is closed
    wg,         \* agent: the counter of the WaitGroup
    tickReady,  \* agent: ticker.C holds a tick
    hostInstanceID, \* agent: the instance ID processMetrics scraped
    pillarMetrics, \* agent: the pillar files processMetrics still has to range over
    events,     \* agent history: what the iteration in progress did, in order
    iterations  \* agent history: iterations started so far

vars == <<call, ret, localOs, path, pc, pkgFunc, idx, toReturn, results, repoErrs, cmds, logs, fs, now, last,
          mainPc, runPc, signals, received, cancelled, wg, tickReady, hostInstanceID, pillarMetrics,
          events, iterations>>

scanVars == <<localOs, path, pc, pkgFunc, idx, toReturn, results, repoErrs, cmds, logs>>

fileVars == <<fs, now, last>>

agentVars ==
    <<mainPc, runPc, signals, received, cancelled, wg, tickReady, hostInstanceID, pillarMetrics, events, iterations>>

----------------------------------------------------------------------------
(* Bounds of the model *)

\* lines in one package-query output
MaxLines == 2
\* symbols in an upstream version
MaxVerLen == 3
\* lines in one apt-cache policy output
MaxRepoLines == 3
\* symbols in a RHEL repository id
MaxRepoLen == 4
\* patterns of one scan whose query is something other than a plain no-match
MaxHits == 2
\* file operations in one run
MaxOps == 2
\* ticks the clock advances in one run
MaxTicks == 1
\* iterations of the agent's main loop in one run
MaxIterations == 2
\* SIGINT and SIGTERM sent to the agent in one run
MaxSignals == 2

----------------------------------------------------------------------------
(* Go's strings package over symbol sequences *)

Min(S) == CHOOSE x \in S : \A y \in S : x <= y

Max(S) == CHOOSE x \in S : \A y \in S : x >= y

WhiteSpace == {" ", "\t", "\n", "\r"}

\* strings.Trim(s, cutset)
Trim(s, cutset) ==
    LET keep == {i \in 1..Len(s) : s[i] \notin cutset}
    IN  IF keep = {} THEN << >> ELSE SubSeq(s, Min(keep), Max(keep))

\* strings.TrimSpace(s)
TrimSpace(s) == Trim(s, WhiteSpace)

\* strings.Index(s, sub): first position of sub in s, 0 when absent
Index(s, sub) ==
    LET hits == {i \in 1..(Len(s) - Len(sub) + 1) : SubSeq(s, i, i + Len(sub) - 1) = sub}
    IN  IF hits = {} THEN 0 ELSE Min(hits)

\* strings.LastIndex(s, sub): last position of sub in s, 0 when absent
LastIndex(s, sub) ==
    LET hits == {i \in 1..(Len(s) - Len(sub) + 1) : SubSeq(s, i, i + Len(sub) - 1) = sub}
    IN  IF hits = {} THEN 0 ELSE Max(hits)

\* strings.Contains(s, sub)
Contains(s, sub) == Index(s, sub) # 0

\* strings.HasPrefix(s, prefix)
HasPrefix(s, prefix) == Len(s) >= Len(prefix) /\ SubSeq(s, 1, Len(prefix)) = prefix

\* strings.Split(s, sep) for a one-symbol separator
RECURSIVE Split(_, _)
Split(s, sep) ==
    LET pos == Index(s, <<sep>>)
    IN  IF pos = 0 THEN <<s>>
        ELSE <<SubSeq(s, 1, pos - 1)>> \o Split(SubSeq(s, pos + 1, Len(s)), sep)

\* strings.SplitN(s, sep, 2)
SplitN2(s, sep) ==
    LET pos == Index(s, <<sep>>)
    IN  IF pos = 0 THEN <<s>>
        ELSE <<SubSeq(s, 1, pos - 1), SubSeq(s, pos + 1, Len(s))>>

\* strings.ReplaceAll(s, old, new) for one-symbol old and new
ReplaceAll(s, old, new) == [i \in 1..Len(s) |-> IF s[i] = old THEN new ELSE s[i]]

\* strings.Join(parts, sep)
RECURSIVE Join(_, _)
Join(parts, sep) ==
    IF Len(parts) = 0 THEN << >>
    ELSE IF Len(parts) = 1 THEN parts[1]
    ELSE parts[1] \o <<sep>> \o Join(Tail(parts), sep)

\* all sequences over S of length 0..n
SeqsUpTo(S, n) == UNION {[1..k -> S] : k \in 0..n}

----------------------------------------------------------------------------
(* Errors are values with a message *)

Nil == [isErr |-> FALSE, msg |-> << >>]

Err(m) == [isErr |-> TRUE, msg |-> m]

errPackageNotFound == Err(<<"package", " ", "is", " ", "not", " ", "found">>)

errPackageRepositoryNotFound == Err(<<"package", " ", "repository", " ", "is", " ", "not", " ", "found">>)

errPackageManagerNotFound == Err(<<"package", " ", "manager", " ", "is", " ", "not", " ", "found">>)

errUnexpectedRepoLine == Err(<<"unexpected", " ", "package", " ", "repository", " ", "line">>)

errUnexpectedConfiguredRepoLine == Err(<<"unexpected", " ", "configured", " ", "package", " ", "repository", " ", "line">>)

\* bufio.ErrTooLong
ErrTooLong == Err(<<"bufio.Scanner:", " ", "token", " ", "too", " ", "long">>)

\* the text dpkg-query prints when a pattern matches no package
NoPackagesText == <<"no", " ", "packages", " ", "found", " ", "matching">>

----------------------------------------------------------------------------
(* bufio.Scanner with the default ScanLines split function *)

\* bufio.MaxScanTokenSize
MaxScanTokenSize == 65536

\* a symbol standing for MaxScanTokenSize bytes that hold no newline
Blob == "<64KiB>"

\* length in bytes of a symbol sequence (words count as one byte)
ByteLen(s) == Len(s) + (MaxScanTokenSize - 1) * Cardinality({i \in 1..Len(s) : s[i] = Blob})

\* dropCR of bufio.ScanLines
DropCR(s) == IF Len(s) > 0 /\ s[Len(s)] = "\r" THEN SubSeq(s, 1, Len(s) - 1) ELSE s

\* The lines scanner.Scan() delivers, and scanner.Err() after the loop:
\* a line that does not fit the buffer ends the scan with ErrTooLong.
RECURSIVE ScanLines(_)
ScanLines(data) ==
    IF Len(data) = 0 THEN [lines |-> << >>, err |-> Nil]
    ELSE LET nl   == Index(data, <<"\n">>)
             raw  == IF nl = 0 THEN data ELSE SubSeq(data, 1, nl - 1)
             rest == IF nl = 0 THEN << >> ELSE SubSeq(data, nl + 1, Len(data))
         IN  IF ByteLen(raw) >= MaxScanTokenSize
             THEN [lines |-> << >>, err |-> ErrTooLong]
             ELSE LET r == ScanLines(rest)
                  IN  [lines |-> <<DropCR(raw)>> \o r.lines, err |-> r.err]

----------------------------------------------------------------------------
(* The data model *)

\* PackageRepository{} : the zero value
EmptyRepository == [Name |-> << >>, Component |-> << >>]

\* &Package{Name, Version, Repository}
Package(name, version, repository) == [Name |-> name, Version |-> version, Repository |-> repository]

\* the (list, error) pair every backend returns
Result(pkgs, err) == [pkgs |-> pkgs, err |-> err]

----------------------------------------------------------------------------
(* github.com/knqyf263/go-deb-version, as parseDebianPackageVersion uses it *)

Digits == {"0", "1", "2", "3", "4", "5", "6", "7", "8", "9"}

\* letters, and words made of letters only
Letters == {"a", "b", "j", "v", "x", "el", "dfsg", "jammy", "ubuntu"}

\* strconv.Atoi(s) succeeds: an optional sign, then digits
AtoiOk(s) ==
    LET body == IF Len(s) > 0 /\ s[1] \in {"+", "-"} THEN Tail(s) ELSE s
    IN  Len(body) > 0 /\ \A i \in 1..Len(body) : body[i] \in Digits

\* strconv.Atoi(s) < 0
AtoiNegative(s) == AtoiOk(s) /\ s[1] = "-" /\ \E i \in 2..Len(s) : s[i] # "0"

verifyUpstreamVersion(str) ==
    /\ Len(str) # 0
    /\ str[1] \in Digits
    /\ \A i \in 1..Len(str) : str[i] \in Digits \cup Letters \cup {".", "-", "+", "~", ":", "_"}

verifyDebianRevision(str) ==
    \A i \in 1..Len(str) : str[i] \in Digits \cup Letters \cup {"+", ".", "~", "_"}

\* NewVersion leaving the epoch in the upstream version
NewVersion_KeepEpoch(ver) ==
    LET trimmed  == TrimSpace(ver)
        splitted == SplitN2(trimmed, ":")
        epochOk  == Len(splitted) = 1 \/ (AtoiOk(splitted[1]) /\ ~AtoiNegative(splitted[1]))
        body     == trimmed
        index    == LastIndex(body, <<"-">>)
        upstream == IF index # 0 THEN SubSeq(body, 1, index - 1) ELSE body
        revision == IF index # 0 THEN SubSeq(body, index + 1, Len(body)) ELSE << >>
    IN  [ok       |-> epochOk /\ verifyUpstreamVersion(upstream) /\ verifyDebianRevision(revision),
         upstream |-> upstream,
         revision |-> revision]

\* debVersion.NewVersion(ver): ok is FALSE when it returns an error
NewVersion(ver) ==
    LET trimmed  == TrimSpace(ver)
        splitted == SplitN2(trimmed, ":")
        epochOk  == Len(splitted) = 1 \/ (AtoiOk(splitted[1]) /\ ~AtoiNegative(splitted[1]))
        body     == IF Len(splitted) = 1 THEN splitted[1] ELSE splitted[2]
        index    == LastIndex(body, <<"-">>)
        upstream == IF index # 0 THEN SubSeq(body, 1, index - 1) ELSE body
        revision == IF index # 0 THEN SubSeq(body, index + 1, Len(body)) ELSE << >>
    IN  [ok       |-> epochOk /\ verifyUpstreamVersion(upstream) /\ verifyDebianRevision(revision),
         upstream |-> upstream,
         revision |-> revision]

----------------------------------------------------------------------------
(* Debian backend: metrics/package_debian.go *)

parseDebianPackageName(pkgName) == Split(TrimSpace(pkgName), ":")[1]

\* the normalizer appending the revision of a third-party version
parseDebianPackageVersion_ThirdPartyRevision(pkgVersion, isPerconaPackage) ==
    IF isPerconaPackage
    THEN LET pos      == LastIndex(pkgVersion, <<".">>)
             stripped == IF pos # 0 THEN SubSeq(pkgVersion, 1, pos - 1) ELSE pkgVersion
             v        == NewVersion(stripped)
         IN  IF ~v.ok THEN stripped
             ELSE IF Len(v.revision) # 0
                  THEN v.upstream \o <<"-">> \o ReplaceAll(v.revision, ".", "-")
                  ELSE v.upstream
    ELSE LET v == NewVersion(pkgVersion)
         IN  IF ~v.ok THEN pkgVersion
             ELSE LET pos == Index(v.upstream, <<"+", "dfsg">>)
                      cut == IF pos # 0 THEN SubSeq(v.upstream, 1, pos - 1) ELSE v.upstream
                  IN  IF Len(v.revision) # 0 THEN cut \o <<"-">> \o v.revision ELSE cut

\* the normalizer keeping the dots of a first-party revision
parseDebianPackageVersion_KeepDots(pkgVersion, isPerconaPackage) ==
    IF isPerconaPackage
    THEN LET pos      == LastIndex(pkgVersion, <<".">>)
             stripped == IF pos # 0 THEN SubSeq(pkgVersion, 1, pos - 1) ELSE pkgVersion
             v        == NewVersion(stripped)
         IN  IF ~v.ok THEN stripped
             ELSE IF Len(v.revision) # 0
                  THEN v.upstream \o <<"-">> \o v.revision
                  ELSE v.upstream
    ELSE LET v == NewVersion(pkgVersion)
         IN  IF ~v.ok THEN pkgVersion
             ELSE LET pos == Index(v.upstream, <<"+", "dfsg">>)
                  IN  IF pos # 0 THEN SubSeq(v.upstream, 1, pos - 1) ELSE v.upstream

parseDebianPackageVersion(pkgVersion, isPerconaPackage) ==
    IF isPerconaPackage
    THEN LET pos      == LastIndex(pkgVersion, <<".">>)
             stripped == IF pos # 0 THEN SubSeq(pkgVersion, 1, pos - 1) ELSE pkgVersion
             v        == NewVersion(stripped)
         IN  IF ~v.ok THEN stripped
             ELSE IF Len(v.revision) # 0
                  THEN v.upstream \o <<"-">> \o ReplaceAll(v.revision, ".", "-")
                  ELSE v.upstream
    ELSE LET v == NewVersion(pkgVersion)
         IN  IF ~v.ok THEN pkgVersion
             ELSE LET pos == Index(v.upstream, <<"+", "dfsg">>)
                  IN  IF pos # 0 THEN SubSeq(v.upstream, 1, pos - 1) ELSE v.upstream

\* the status check taking every status that starts with 'i'
Installed_AnyDesiredInstall(pkgStatus) == Len(pkgStatus) > 0 /\ pkgStatus[1] = "i"

\* the status check of parseDebianPackageOutput, on the trimmed status
Installed(pkgStatus) == pkgStatus = <<"i", "i">> \/ pkgStatus = <<"i", "H", "R">>

\* the loop pass taking a line of two fields as a package without version
DebianLinePackages_AcceptTwoFields(text, isPerconaPackage) ==
    LET line   == Trim(text, {" ", "'"})
        tokens == Split(line, "|")
    IN  IF Len(line) = 0 THEN << >>
        ELSE IF Len(tokens) = 2
        THEN <<Package(parseDebianPackageName(tokens[2]), << >>, EmptyRepository)>>
        ELSE IF Len(tokens) # 3 THEN << >>
        ELSE LET pkgStatus  == TrimSpace(tokens[1])
                 pkgName    == parseDebianPackageName(tokens[2])
                 pkgVersion == parseDebianPackageVersion(tokens[3], isPerconaPackage)
             IN  IF ~Installed(pkgStatus) THEN << >>
                 ELSE IF Len(pkgName) = 0 THEN << >>
                 ELSE IF Len(pkgVersion) = 0 THEN << >>
                 ELSE <<Package(pkgName, pkgVersion, EmptyRepository)>>

\* one pass of the scanner loop of parseDebianPackageOutput: the Packages
\* (none or one) the line appends to toReturn
DebianLinePackages(text, isPerconaPackage) ==
    LET line   == Trim(text, {" ", "'"})
        tokens == Split(line, "|")
    IN  IF Len(line) = 0 THEN << >>
        ELSE IF Len(tokens) # 3 THEN << >>
        ELSE LET pkgStatus  == TrimSpace(tokens[1])
                 pkgName    == parseDebianPackageName(tokens[2])
                 pkgVersion == parseDebianPackageVersion(tokens[3], isPerconaPackage)
             IN  IF ~Installed(pkgStatus) THEN << >>
                 ELSE IF Len(pkgName) = 0 THEN << >>
                 ELSE IF Len(pkgVersion) = 0 THEN << >>
                 ELSE <<Package(pkgName, pkgVersion, EmptyRepository)>>

RECURSIVE DebianScanLoop(_, _)
DebianScanLoop(lines, isPerconaPackage) ==
    IF Len(lines) = 0 THEN << >>
    ELSE DebianLinePackages(lines[1], isPerconaPackage) \o DebianScanLoop(Tail(lines), isPerconaPackage)

\* the end of parseDebianPackageOutput, after the scanner loop
DebianScanResult(pkgs, scanErr) ==
    IF scanErr.isErr THEN Result(<< >>, scanErr)
    ELSE IF Len(pkgs) = 0 THEN Result(<< >>, errPackageNotFound)
    ELSE Result(pkgs, Nil)

\* parseDebianPackageOutput without the final len(toReturn) == 0 check
parseDebianPackageOutput_EmptySuccess(dpkgOutput, dpkgErr, isPerconaPackage) ==
    IF dpkgErr.isErr
    THEN IF Contains(dpkgErr.msg, NoPackagesText)
         THEN Result(<< >>, errPackageNotFound)
         ELSE Result(<< >>, dpkgErr)
    ELSE LET sc       == ScanLines(dpkgOutput)
             scanned  == DebianScanLoop(sc.lines, isPerconaPackage)
         IN  IF sc.err.isErr THEN Result(<< >>, sc.err)
             ELSE Result(scanned, Nil)

parseDebianPackageOutput(dpkgOutput, dpkgErr, isPerconaPackage) ==
    IF dpkgErr.isErr
    THEN IF Contains(dpkgErr.msg, NoPackagesText)
         THEN Result(<< >>, errPackageNotFound)
         ELSE Result(<< >>, dpkgErr)
    ELSE LET sc == ScanLines(dpkgOutput)
         IN  DebianScanResult(DebianScanLoop(sc.lines, isPerconaPackage), sc.err)

----------------------------------------------------------------------------
(* RHEL backend: package_rhel.go *)

\* parseRhelPackageVersion joining the release without the '.' to '-' rewrite
parseRhelPackageVersion_KeepDots(packageVersion, packageRelease, isPerconaPackage) ==
    LET relPos  == LastIndex(packageRelease, <<".">>)
        verPos  == LastIndex(packageVersion, <<".">>)
        release == IF Len(packageRelease) # 0 /\ relPos # 0
                   THEN SubSeq(packageRelease, 1, relPos - 1) ELSE packageRelease
        version == IF Len(packageRelease) = 0 /\ verPos # 0
                   THEN SubSeq(packageVersion, 1, verPos - 1) ELSE packageVersion
    IN  IF isPerconaPackage /\ Len(release) # 0
        THEN version \o <<"-">> \o release
        ELSE version

\* parseRhelPackageVersion cutting the version whatever the release
parseRhelPackageVersion_AlwaysCutVersion(packageVersion, packageRelease, isPerconaPackage) ==
    LET relPos  == LastIndex(packageRelease, <<".">>)
        verPos  == LastIndex(packageVersion, <<".">>)
        release == IF Len(packageRelease) # 0 /\ relPos # 0
                   THEN SubSeq(packageRelease, 1, relPos - 1) ELSE packageRelease
        version == IF verPos # 0
                   THEN SubSeq(packageVersion, 1, verPos - 1) ELSE packageVersion
    IN  IF isPerconaPackage /\ Len(release) # 0
        THEN version \o <<"-">> \o ReplaceAll(release, ".", "-")
        ELSE version

parseRhelPackageVersion(packageVersion, packageRelease, isPerconaPackage) ==
    LET relPos  == LastIndex(packageRelease, <<".">>)
        verPos  == LastIndex(packageVersion, <<".">>)
        release == IF Len(packageRelease) # 0 /\ relPos # 0
                   THEN SubSeq(packageRelease, 1, relPos - 1) ELSE packageRelease
        version == IF Len(packageRelease) = 0 /\ verPos # 0
                   THEN SubSeq(packageVersion, 1, verPos - 1) ELSE packageVersion
    IN  IF isPerconaPackage /\ Len(release) # 0
        THEN version \o <<"-">> \o ReplaceAll(release, ".", "-")
        ELSE version

\* parseRhelPackageRegistry naming the repository after a remainder without '-'
parseRhelPackageRegistry_WholeRemainder(packageRepository, isPerconaPackage) ==
    IF Len(packageRepository) = 0 THEN EmptyRepository
    ELSE IF ~isPerconaPackage THEN [Name |-> packageRepository, Component |-> << >>]
    ELSE LET archPos == LastIndex(packageRepository, <<"-">>)
             noArch  == IF archPos # 0 THEN SubSeq(packageRepository, 1, archPos - 1)
                        ELSE packageRepository
             pos     == LastIndex(noArch, <<"-">>)
         IN  IF pos # 0
             THEN [Name |-> SubSeq(noArch, 1, pos - 1), Component |-> SubSeq(noArch, pos + 1, Len(noArch))]
             ELSE [Name |-> noArch, Component |-> << >>]

parseRhelPackageRegistry(packageRepository, isPerconaPackage) ==
    IF Len(packageRepository) = 0 THEN EmptyRepository
    ELSE IF ~isPerconaPackage THEN [Name |-> packageRepository, Component |-> << >>]
    ELSE LET archPos == LastIndex(packageRepository, <<"-">>)
             noArch  == IF archPos # 0 THEN SubSeq(packageRepository, 1, archPos - 1)
                        ELSE packageRepository
             pos     == LastIndex(noArch, <<"-">>)
         IN  IF pos # 0
             THEN [Name |-> SubSeq(noArch, 1, pos - 1), Component |-> SubSeq(noArch, pos + 1, Len(noArch))]
             ELSE EmptyRepository

\* one pass of the scanner loop of parseRhelPackageOutput
RhelLinePackages(text, isPerconaPackage) ==
    LET line   == Trim(text, {" ", "'", "\t"})
        tokens == Split(line, "|")
    IN  IF Len(line) = 0 THEN << >>
        ELSE IF Len(tokens) # 4 THEN << >>
        ELSE <<Package(tokens[1],
                       parseRhelPackageVersion(tokens[2], tokens[3], isPerconaPackage),
                       parseRhelPackageRegistry(tokens[4], isPerconaPackage))>>

RECURSIVE RhelScanLoop(_, _)
RhelScanLoop(lines, isPerconaPackage) ==
    IF Len(lines) = 0 THEN << >>
    ELSE RhelLinePackages(lines[1], isPerconaPackage) \o RhelScanLoop(Tail(lines), isPerconaPackage)

\* parseRhelPackageOutput reading a no-match text as "not found", as dpkg's does
parseRhelPackageOutput_Downgrade(packageOutput, rpmErr, isPerconaPackage) ==
    IF rpmErr.isErr
    THEN IF Contains(packageOutput, NoPackagesText)
         THEN Result(<< >>, errPackageNotFound)
         ELSE Result(<< >>, rpmErr)
    ELSE LET sc      == ScanLines(packageOutput)
             scanned == RhelScanLoop(sc.lines, isPerconaPackage)
         IN  IF sc.err.isErr THEN Result(<< >>, sc.err)
             ELSE IF Len(scanned) = 0 THEN Result(<< >>, errPackageNotFound)
             ELSE Result(scanned, Nil)

parseRhelPackageOutput(packageOutput, rpmErr, isPerconaPackage) ==
    IF rpmErr.isErr THEN Result(<< >>, rpmErr)
    ELSE LET sc      == ScanLines(packageOutput)
             scanned == RhelScanLoop(sc.lines, isPerconaPackage)
         IN  IF sc.err.isErr THEN Result(<< >>, sc.err)
             ELSE IF Len(scanned) = 0 THEN Result(<< >>, errPackageNotFound)
             ELSE Result(scanned, Nil)

----------------------------------------------------------------------------
(* Debian repository resolver: metrics/package_debian.go *)

\* a nil *PackageRepository
NilRepository == [nil |-> TRUE]

RepoResult(repo, err) == [repo |-> repo, err |-> err]

\* the text apt-cache prints for a package it does not know
UnableToLocateText == <<"Unable", " ", "to", " ", "locate", " ", "package">>

\* a symbol standing for an invalid percent-escape, which url.Parse rejects
BadEscape == "%zz"

\* net/url.Parse(rawURL), for addresses made of the symbol "http://", host
\* and segment words, "/" and BadEscape: ok is FALSE when it returns an error
urlParse(rawURL) ==
    IF \E i \in 1..Len(rawURL) : rawURL[i] = BadEscape THEN [ok |-> FALSE, Path |-> << >>]
    ELSE IF Len(rawURL) > 0 /\ rawURL[1] = "http://"
    THEN LET rest  == Tail(rawURL)
             slash == Index(rest, <<"/">>)
         IN  [ok |-> TRUE, Path |-> IF slash = 0 THEN << >> ELSE SubSeq(rest, slash, Len(rest))]
    ELSE [ok |-> TRUE, Path |-> rawURL]

\* the error url.Parse returns
errURLParse == Err(<<"parse:", " ", "invalid", " ", "URL", " ", "escape">>)

\* parseDebianPackageRepositoryLine taking the last part of a branch of any depth
parseDebianPackageRepositoryLine_AnyDepth(repositoryLine, isPerconaPackage) ==
    LET repoTokens == Split(repositoryLine, " ")
    IN  IF Len(repoTokens) < 3 THEN RepoResult(NilRepository, errUnexpectedRepoLine)
        ELSE LET repoURL    == urlParse(repoTokens[2])
                 repoName   == Split(Trim(repoURL.Path, {"/"}), "/")[1]
                 repoBranch == Split(repoTokens[3], "/")
                 rawComp    == IF Len(repoBranch) >= 2 THEN repoBranch[Len(repoBranch)] ELSE << >>
                 component  == IF isPerconaPackage /\ rawComp = <<"main">> THEN <<"release">> ELSE rawComp
             IN  IF ~repoURL.ok THEN RepoResult(NilRepository, errURLParse)
                 ELSE RepoResult([Name |-> repoName, Component |-> component], Nil)

\* parseDebianPackageRepositoryLine without the "main" to "release" rewrite
parseDebianPackageRepositoryLine_NoRemap(repositoryLine, isPerconaPackage) ==
    LET repoTokens == Split(repositoryLine, " ")
    IN  IF Len(repoTokens) < 3 THEN RepoResult(NilRepository, errUnexpectedRepoLine)
        ELSE LET repoURL    == urlParse(repoTokens[2])
                 repoName   == Split(Trim(repoURL.Path, {"/"}), "/")[1]
                 repoBranch == Split(repoTokens[3], "/")
                 rawComp    == IF Len(repoBranch) = 2 THEN repoBranch[2] ELSE << >>
             IN  IF ~repoURL.ok THEN RepoResult(NilRepository, errURLParse)
                 ELSE RepoResult([Name |-> repoName, Component |-> rawComp], Nil)

parseDebianPackageRepositoryLine(repositoryLine, isPerconaPackage) ==
    LET repoTokens == Split(repositoryLine, " ")
    IN  IF Len(repoTokens) < 3 THEN RepoResult(NilRepository, errUnexpectedRepoLine)
        ELSE LET repoURL    == urlParse(repoTokens[2])
                 repoName   == Split(Trim(repoURL.Path, {"/"}), "/")[1]
                 repoBranch == Split(repoTokens[3], "/")
                 rawComp    == IF Len(repoBranch) = 2 THEN repoBranch[2] ELSE << >>
                 component  == IF isPerconaPackage /\ rawComp = <<"main">> THEN <<"release">> ELSE rawComp
             IN  IF ~repoURL.ok THEN RepoResult(NilRepository, errURLParse)
                 ELSE RepoResult([Name |-> repoName, Component |-> component], Nil)

RECURSIVE FindRepositoryLine(_, _, _, _)
\* the inner loop passing over the lines of fewer than three fields
FindRepositoryLine_SkipShortLines(lines, priority, isPerconaPackage, scanErr) ==
    IF Len(lines) = 0
    THEN IF scanErr.isErr THEN RepoResult(NilRepository, scanErr)
         ELSE RepoResult(NilRepository, errPackageRepositoryNotFound)
    ELSE LET line == Trim(lines[1], {" ", "'", "\t"})
         IN  IF Len(line) = 0 \/ ~HasPrefix(line, priority) \/ Len(Split(line, " ")) < 3
             THEN FindRepositoryLine(Tail(lines), priority, isPerconaPackage, scanErr)
             ELSE parseDebianPackageRepositoryLine(line, isPerconaPackage)

\* the inner scanner loop of parseDebianRepositoryOutput, entered after the
\* "***" line: the first line that starts with priority decides
FindRepositoryLine(lines, priority, isPerconaPackage, scanErr) ==
    IF Len(lines) = 0
    THEN IF scanErr.isErr THEN RepoResult(NilRepository, scanErr)
         ELSE RepoResult(NilRepository, errPackageRepositoryNotFound)
    ELSE LET line == Trim(lines[1], {" ", "'", "\t"})
         IN  IF Len(line) = 0 \/ ~HasPrefix(line, priority)
             THEN FindRepositoryLine(Tail(lines), priority, isPerconaPackage, scanErr)
             ELSE parseDebianPackageRepositoryLine(line, isPerconaPackage)

RECURSIVE RepoScanLoop(_, _, _)
\* the outer loop passing over a "***" line that has not three fields
RepoScanLoop_PassMalformedMarker(lines, isPerconaPackage, scanErr) ==
    IF Len(lines) = 0
    THEN IF scanErr.isErr THEN RepoResult(NilRepository, scanErr)
         ELSE RepoResult(NilRepository, errPackageRepositoryNotFound)
    ELSE LET line   == Trim(lines[1], {" ", "'", "\t"})
             tokens == Split(line, " ")
         IN  IF Contains(line, UnableToLocateText)
             THEN RepoResult(NilRepository, errPackageRepositoryNotFound)
             ELSE IF Len(line) = 0 \/ ~HasPrefix(line, <<"***">>) \/ Len(tokens) # 3
             THEN RepoScanLoop(Tail(lines), isPerconaPackage, scanErr)
             ELSE FindRepositoryLine(Tail(lines), tokens[3], isPerconaPackage, scanErr)

\* the outer scanner loop of parseDebianRepositoryOutput
RepoScanLoop(lines, isPerconaPackage, scanErr) ==
    IF Len(lines) = 0
    THEN IF scanErr.isErr THEN RepoResult(NilRepository, scanErr)
         ELSE RepoResult(NilRepository, errPackageRepositoryNotFound)
    ELSE LET line   == Trim(lines[1], {" ", "'", "\t"})
             tokens == Split(line, " ")
         IN  IF Contains(line, UnableToLocateText)
             THEN RepoResult(NilRepository, errPackageRepositoryNotFound)
             ELSE IF Len(line) = 0 \/ ~HasPrefix(line, <<"***">>)
             THEN RepoScanLoop(Tail(lines), isPerconaPackage, scanErr)
             ELSE IF Len(tokens) # 3
             THEN RepoResult(NilRepository, errUnexpectedConfiguredRepoLine)
             ELSE FindRepositoryLine(Tail(lines), tokens[3], isPerconaPackage, scanErr)

parseDebianRepositoryOutput(repoOutput, repoErr, isPerconaPackage) ==
    IF repoErr.isErr THEN RepoResult(NilRepository, repoErr)
    ELSE LET sc == ScanLines(repoOutput)
         IN  RepoScanLoop(sc.lines, isPerconaPackage, sc.err)

----------------------------------------------------------------------------
(* Inventory orchestrator: metrics/package.go *)

getCommonPerconaPackages == <<"Percona-*", "percona-*", "proxysql*", "pmm*">>

getCommonExternalPackages == <<"etcd*", "haproxy", "patroni", "pg*", "postgis", "wal2json">>

\* pkgList of ScrapeInstalledPackages
pkgList == getCommonPerconaPackages \o getCommonExternalPackages

isPerconaPackage(packageNamePattern) ==
    \E i \in 1..Len(getCommonPerconaPackages) : getCommonPerconaPackages[i] = packageNamePattern

UpperLetters == <<"A", "B", "C", "D", "E", "F", "G", "H", "I", "J", "K", "L", "M",
                  "N", "O", "P", "Q", "R", "S", "T", "U", "V", "W", "X", "Y", "Z">>

LowerLetters == <<"a", "b", "c", "d", "e", "f", "g", "h", "i", "j", "k", "l", "m",
                  "n", "o", "p", "q", "r", "s", "t", "u", "v", "w", "x", "y", "z">>

\* unicode.ToLower on the upper-case letters
LowerOf == [c \in {UpperLetters[i] : i \in 1..26} |->
               LowerLetters[CHOOSE i \in 1..26 : UpperLetters[i] = c]]

\* strings.ToLower(s)
ToLower(s) == [i \in 1..Len(s) |-> IF s[i] \in DOMAIN LowerOf THEN LowerOf[s[i]] ELSE s[i]]

DebianPrefixes == <<<<"d", "e", "b", "i", "a", "n">>, <<"u", "b", "u", "n", "t", "u">>>>

RhelPrefixes == <<<<"e", "l">>, <<"c", "e", "n", "t", "o", "s">>, <<"o", "r", "a", "c", "l", "e">>,
                  <<"r", "o", "c", "k", "y">>, <<"r", "e", "d", " ", "h", "a", "t">>,
                  <<"a", "m", "a", "z", "o", "n">>, <<"a", "l", "m", "a">>>>

\* isDebianFamily comparing the name as it is, without lower-casing it
isDebianFamily_CaseSensitive(name) ==
    \E i \in 1..Len(DebianPrefixes) : HasPrefix(name, DebianPrefixes[i])

isDebianFamily(name) ==
    \E i \in 1..Len(DebianPrefixes) : HasPrefix(ToLower(name), DebianPrefixes[i])

\* isRHELFamily with an empty string among its prefixes
isRHELFamily_EmptyPrefix(name) ==
    \E i \in 1..Len(RhelPrefixes) : HasPrefix(ToLower(name), << >>)

isRHELFamily(name) ==
    \E i \in 1..Len(RhelPrefixes) : HasPrefix(ToLower(name), RhelPrefixes[i])

\* the switch of ScrapeInstalledPackages: the first family that matches
DistroFamily(name) ==
    IF isDebianFamily(name) THEN "debian"
    ELSE IF isRHELFamily(name) THEN "rhel"
    ELSE "unknown"

newQueryFormat == "'%{name}|%{version}|%{release}|%{from_repo}'"

oldQueryFormat == "'%{name}|%{version}|%{release}|%{ui_from_repo}'"

\* the candidate commands of getRhelPackageManagerCmd, in probing order
RhelCandidates(localOS) ==
    IF \/ HasPrefix(ToLower(localOS), <<"c", "e", "n", "t", "o", "s">>)
       \/ HasPrefix(ToLower(localOS), <<"a", "m", "a", "z", "o", "n", " ", "l", "i", "n", "u", "x", " ", "2">>)
    THEN <<<<"repoquery", "--qf", oldQueryFormat, "--installed">>>>
    ELSE <<<<"repoquery", "--qf", newQueryFormat, "--installed">>,
           <<"yum", "repoquery", "--qf", newQueryFormat, "--installed">>,
           <<"dnf", "repoquery", "--qf", newQueryFormat, "--installed">>>>

\* getRhelPackageManagerCmd returning the last candidate found on PATH
getRhelPackageManagerCmd_LastFound(localOS, onPath) ==
    LET cands == RhelCandidates(localOS)
        found == {i \in 1..Len(cands) : cands[i][1] \in onPath}
    IN  IF found = {} THEN [cmd |-> << >>, err |-> errPackageManagerNotFound]
        ELSE [cmd |-> cands[Max(found)], err |-> Nil]

\* getRhelPackageManagerCmd(localOS), with onPath the binaries exec.LookPath finds
getRhelPackageManagerCmd(localOS, onPath) ==
    LET cands == RhelCandidates(localOS)
        found == {i \in 1..Len(cands) : cands[i][1] \in onPath}
    IN  IF found = {} THEN [cmd |-> << >>, err |-> errPackageManagerNotFound]
        ELSE [cmd |-> cands[Min(found)], err |-> Nil]

----------------------------------------------------------------------------
(* Inputs of the parsers: the tool outputs and errors they are applied to *)

\* an output of n lines, each ended by a newline
RECURSIVE Output(_)
Output(lines) == IF Len(lines) = 0 THEN << >> ELSE lines[1] \o <<"\n">> \o Output(Tail(lines))

\* the error of exec.Cmd for a tool that exits with a non-zero status
ExitStatusErr == Err(<<"exit", " ", "status", " ", "1">>)

\* an error whose own message carries dpkg-query's no-match text
NoPackagesErr == Err(<<"dpkg-query:", " ">> \o NoPackagesText \o <<" ", "p">>)

\* the line dpkg-query prints (to stderr) when the pattern matches nothing
NoPackagesLine == <<"dpkg-query:", " ">> \o NoPackagesText \o <<" ", "p">>

DebianStatuses == {<<"i", "i", " ">>, <<"i", "H", "R", " ">>, <<"u", "n", " ">>,
                   <<"i", "U", " ">>, <<"\t", "i", "i", " ">>}

DebianNames == {<< >>, <<"p">>, <<"p", ":", "a">>}

DebianVersions == {<< >>, <<"1", ".", "0", "-", "1", ".", "jammy">>, <<".", "jammy">>}

\* 'status|name|version' as the dpkg-query format string frames it
DebianLine(status, name, version) == <<"'">> \o Join(<<status, name, version>>, "|") \o <<"'">>

DebianLines ==
    {DebianLine(st, <<"p">>, <<"1", ".", "0", "-", "1", ".", "jammy">>) : st \in DebianStatuses}
    \cup {DebianLine(<<"i", "i", " ">>, nm, ver) : nm \in DebianNames, ver \in DebianVersions}
    \cup {<< >>, <<"i", "i", " ", "|", "p">>, <<"i", "i", " ", "|", "p", "|", "1", "|", "x">>, <<Blob>>}

DebianOutputs == {Output(ls) : ls \in SeqsUpTo(DebianLines, MaxLines)}

RhelNames == {<< >>, <<"p">>}

RhelVersions == {<< >>, <<"1", ".", "0">>}

RhelReleases == {<< >>, <<"1", ".", "el">>, <<".", "el">>}

RhelRepositories == {<< >>, <<"ps", "-", "main", "-", "x">>}

RhelLine(name, version, release, repository) == Join(<<name, version, release, repository>>, "|")

RhelLines ==
    {RhelLine(nm, ver, <<"1", ".", "el">>, <<"ps", "-", "main", "-", "x">>) : nm \in RhelNames, ver \in RhelVersions}
    \cup {RhelLine(nm, << >>, << >>, << >>) : nm \in RhelNames}
    \cup {RhelLine(<<"p">>, <<"1", ".", "0">>, rel, repo) : rel \in RhelReleases, repo \in RhelRepositories}
    \cup {<< >>, <<"p", "|">>, <<"p", "|", "1", "|", "1", "|", "x", "|", "x">>, <<Blob>>}

RhelOutputs == {Output(ls) : ls \in SeqsUpTo(RhelLines, MaxLines)}

\* what a failed invocation leaves in the combined output
FailedOutputs == {<< >>, Output(<<NoPackagesLine>>), Output(<<<<"p", "|", "1", ".", "0", "|", "1", ".", "el", "|">>>>),
                  Output(<<DebianLine(<<"i", "i", " ">>, <<"p">>, <<"1", ".", "0", "-", "1", ".", "jammy">>)>>)}

ToolErrs == {ExitStatusErr, NoPackagesErr}

PackageOutputCalls(fn, outputs) ==
    {[fn |-> fn, out |-> o, err |-> Nil, isPercona |-> b] : o \in outputs, b \in BOOLEAN}
    \cup {[fn |-> fn, out |-> o, err |-> e, isPercona |-> b] : o \in FailedOutputs, e \in ToolErrs, b \in BOOLEAN}

\* upstream versions: no ':' (an epoch is not part of it) and no white space
Upstreams == SeqsUpTo({"8", ".", "v", "-"}, MaxVerLen) \ {<< >>}

\* one component of a release: no '.', no '-'
ReleaseComponents == {<<"1">>, <<"2", "8">>, <<"a">>}

\* <r1> or <r1>, <r2>
Releases == SeqsUpTo(ReleaseComponents, 2) \ {<< >>}

Codenames == {<<"jammy">>, <<"generic">>}

DistTags == {<<"el", "9">>, <<"amzn", "2">>}

VersionCalls ==
    {[fn |-> "normalizeVersions", upstream |-> u, release |-> r, codename |-> c, disttag |-> d] :
        u \in Upstreams, r \in Releases, c \in Codenames, d \in DistTags}

\* raw Debian versions '[<epoch>:]<upstream>[-<revision>][.<codename>]'; the
\* upstreams include texts that are no upstream version of a Debian package
DebianUpstreams ==
    Upstreams \cup {<<"8", "+", "dfsg">>, <<"8", "+", "dfsg", ".", "1">>, <<"8", "*">>,
                    <<"8", "+", "dfsg", "+", "dfsg">>}

\* the empty text: no '-<revision>'
DebianRevisions == {<< >>, <<"-", "1">>, <<"-", "1", ".", "1">>, <<"-", "7", "ubuntu", "0", ".", "2">>}

\* the empty text: no '.<codename>'
DebianCodenames == {<< >>, <<".", "jammy">>}

\* the versions the comments and tests of the normalizer name
NamedVersions ==
    {<<"8", ".", "1", ".", "0", "-", "1", "-", "1", ".", "jammy">>, <<"2", ".", "1", ".", "1", ".", "jammy">>,
     <<"3", ".", "3", ".", "2", "5", "+", "dfsg", "-", "7", "ubuntu", "0", ".", "2", "2", ".", "0", "4", ".", "1">>}

EpochFreeVersions ==
    {u \o r \o c : u \in DebianUpstreams, r \in DebianRevisions, c \in DebianCodenames} \cup NamedVersions

\* the empty text: no '<epoch>:'
Epochs == {<< >>, <<"0">>, <<"2">>, <<"1", "0">>}

RawVersion(epoch, rest) == IF epoch = << >> THEN rest ELSE epoch \o <<":">> \o rest

DebianVersionCalls ==
    {[fn |-> "parseDebianPackageVersion", epoch |-> e, rest |-> r, isPercona |-> b] :
        e \in Epochs, r \in EpochFreeVersions, b \in BOOLEAN}

RhelRepositoryIds == SeqsUpTo({"ps", "-", "main", "x"}, MaxRepoLen)

\* the repository the comments of parseRhelPackageRegistry name
NamedRepositoryId == <<"ps", "-", "80", "-", "release", "-", "x86_64">>

RegistryCalls ==
    {[fn |-> "parseRhelPackageRegistry", repo |-> r, isPercona |-> b] :
        r \in RhelRepositoryIds \cup {NamedRepositoryId}, b \in BOOLEAN}

\* the version and release fields of a repoquery line, empty or not, with
\* dots at any place
RhelVersionFields == SeqsUpTo({"1", ".", "5"}, MaxVerLen) \cup {<<"1", ".", "5", ".", "5">>}

RhelReleaseFields == SeqsUpTo({"1", ".", "el9"}, MaxVerLen) \cup {<<"1", ".", "2", ".", "el9">>}

RhelVersionCalls ==
    {[fn |-> "parseRhelPackageVersion", version |-> v, release |-> r, isPercona |-> b] :
        v \in RhelVersionFields, r \in RhelReleaseFields, b \in BOOLEAN}

\* lines of an apt-cache policy output
AptHeaderLine == <<"p", ":">>

AptInstalledLine == <<" ", "***", " ", "1", ".", "0", " ", "5">>

AptInstalledNoPriorityLine == <<" ", "***", " ", "1", ".", "0">>

AptMainLine == <<"\t", "5", " ", "http://", "h", "/", "ps", "/", "apt", " ", "jammy", "/", "main", " ", "a">>

AptTestingLine == <<"\t", "5", " ", "http://", "h", "/", "pt", "/", "apt", " ", "jammy", "/", "testing", " ", "a">>

AptStatusLine == <<"\t", "1", " ", "/", "var", "/", "status">>

AptStatusSamePriorityLine == <<"\t", "5", " ", "/", "var", "/", "status">>

AptOlderVersionLine == <<" ", " ", "0", ".", "9", " ", "5">>

AptUnableLine == <<"N:", " ">> \o UnableToLocateText \o <<" ", "p">>

AptBadURLLine == <<"\t", "5", " ", BadEscape, " ", "jammy", "/", "main">>

\* a source of priority 50 under a version of priority 5
AptLongerPriorityLine == <<"\t", "5", "0", " ", "http://", "h", "/", "pq", "/", "apt", " ", "jammy", "/", "main", " ", "a">>

\* '***' and the priority, two blanks and no version between them
AptInstalledNoVersionLine == <<" ", "***", " ", " ", "5">>

AptLines == {AptHeaderLine, AptInstalledLine, AptInstalledNoPriorityLine, AptMainLine, AptTestingLine,
             AptStatusLine, AptStatusSamePriorityLine, AptOlderVersionLine, AptUnableLine, AptBadURLLine,
             AptLongerPriorityLine, AptInstalledNoVersionLine, <<Blob>>}

AptOutputs == {Output(ls) : ls \in SeqsUpTo(AptLines, MaxRepoLines)}

RepositoryCalls ==
    {[fn |-> "parseDebianRepositoryOutput", out |-> o, err |-> Nil, isPercona |-> b] :
        o \in AptOutputs, b \in BOOLEAN}
    \cup {[fn |-> "parseDebianRepositoryOutput", out |-> o, err |-> ExitStatusErr, isPercona |-> b] :
        o \in {<< >>, Output(<<AptInstalledLine, AptMainLine>>)}, b \in BOOLEAN}

\* repository lines, as the inner loop hands them over: trimmed, the
\* priority first
RepoAddresses ==
    {<<"http://", "h", "/", "ps", "/", "apt">>, <<"http://", "h">>, <<"http://", "h", "/", "/", "ps", "/">>,
     <<"/", "var", "/", "status">>, <<BadEscape>>, << >>}

RepoBranches ==
    {<<"jammy", "/", "main">>, <<"jammy", "/", "testing">>, <<"jammy">>, <<"a", "/", "b", "/", "c">>,
     <<"jammy", "/">>}

RepoLineTails == {<< >>, <<" ", "a">>}

RepositoryLines ==
    {<<"5">> \o <<" ">> \o addr \o <<" ">> \o branch \o t :
        addr \in RepoAddresses, branch \in RepoBranches, t \in RepoLineTails}
    \cup {<<"5">> \o <<"\t">> \o addr \o <<"\t">> \o branch :
        addr \in RepoAddresses \ {<< >>}, branch \in RepoBranches}
    \cup {<<"5">> \o <<" ">> \o addr : addr \in RepoAddresses \ {<< >>}}
    \cup {<<"5">>}

RepositoryLineCalls ==
    {[fn |-> "parseDebianPackageRepositoryLine", line |-> l, isPercona |-> b] :
        l \in RepositoryLines, b \in BOOLEAN}

\* PRETTY_NAME of hosts of the RHEL family
CentOS7Name == <<"C", "e", "n", "t", "O", "S", " ", "7">>

CentOSStreamName == <<"C", "e", "n", "t", "O", "S", " ", "S", "t", "r", "e", "a", "m", " ", "9">>

AmazonLinux2Name == <<"A", "m", "a", "z", "o", "n", " ", "L", "i", "n", "u", "x", " ", "2">>

AmazonLinux2UpperName == <<"A", "M", "A", "Z", "O", "N", " ", "L", "I", "N", "U", "X", " ", "2">>

AmazonLinux2023Name == <<"A", "m", "a", "z", "o", "n", " ", "L", "i", "n", "u", "x", " ", "2", "0", "2", "3">>

AmazonLinuxName == <<"A", "m", "a", "z", "o", "n", " ", "L", "i", "n", "u", "x">>

RockyName == <<"R", "o", "c", "k", "y", " ", "L", "i", "n", "u", "x", " ", "9">>

ElName == <<"e", "l", "9">>

RedHatName == <<"R", "e", "d", " ", "H", "a", "t", " ", "8">>

AlmaName == <<"A", "l", "m", "a", "L", "i", "n", "u", "x", " ", "8">>

OracleName == <<"O", "r", "a", "c", "l", "e", " ", "L", "i", "n", "u", "x", " ", "8">>

\* the hosts the comment of getRhelPackageManagerCmd names: CentOS 7 and
\* Amazon Linux 2
OldRepoqueryHosts == {CentOS7Name, AmazonLinux2Name, AmazonLinux2UpperName}

RhelOsNames ==
    OldRepoqueryHosts
    \cup {CentOSStreamName, AmazonLinux2023Name, AmazonLinuxName, RockyName, ElName, RedHatName, AlmaName,
          OracleName}

\* the binaries exec.LookPath may find
PathBinaries == {"repoquery", "yum", "dnf", "rpm"}

PackageManagerCalls ==
    {[fn |-> "getRhelPackageManagerCmd", os |-> o, onPath |-> b] : o \in RhelOsNames, b \in SUBSET PathBinaries}

\* OS names: a word in one of three casings, whole or short of its last
\* letter, after a blank or not, followed by a release text
OsWords ==
    {DebianPrefixes[i] : i \in 1..Len(DebianPrefixes)}
    \cup {RhelPrefixes[i] : i \in 1..Len(RhelPrefixes)}
    \cup {<<"d", "a", "r", "w", "i", "n">>, <<"f", "e", "d", "o", "r", "a">>, <<"s", "u", "s", "e">>}

Casings == {"lower", "Title", "UPPER"}

ToUpper(s) ==
    [i \in 1..Len(s) |->
        IF \E k \in 1..26 : LowerLetters[k] = s[i]
        THEN UpperLetters[CHOOSE k \in 1..26 : LowerLetters[k] = s[i]]
        ELSE s[i]]

Cased(word, casing) ==
    CASE casing = "lower" -> word
      [] casing = "Title" -> ToUpper(SubSeq(word, 1, 1)) \o SubSeq(word, 2, Len(word))
      [] casing = "UPPER" -> ToUpper(word)

OsSuffixes == {<< >>, <<"8">>, <<" ", "L", "i", "n", "u", "x", " ", "8">>}

OsName(word, casing, short, blank, suffix) ==
    (IF blank THEN <<" ">> ELSE << >>)
    \o (IF short THEN SubSeq(Cased(word, casing), 1, Len(word) - 1) ELSE Cased(word, casing))
    \o suffix

ClassifierCalls ==
    {[fn |-> "DistroFamily", word |-> w, short |-> sh, blank |-> bl,
      osName |-> OsName(w, c, sh, bl, sf)] :
        w \in OsWords, c \in Casings, sh \in BOOLEAN, bl \in BOOLEAN, sf \in OsSuffixes}

----------------------------------------------------------------------------
(* The file system the history and host functions work on *)

\* a path is a sequence of names, a name a sequence of symbols; fs maps
\* the paths that exist to their nodes
DirNode == [type |-> "dir"]

RegularNode(data) == [type |-> "regular", data |-> data]

NoFiles == << >>

NoOp == [op |-> "none"]

FilesIdle ==
    /\ fs = NoFiles
    /\ now = 0
    /\ last = NoOp

\* the agent's main loop is not part of the run
AgentIdle ==
    /\ mainPc = "idle"
    /\ runPc = "idle"
    /\ signals = << >>
    /\ received = 0
    /\ cancelled = FALSE
    /\ wg = 0
    /\ tickReady = FALSE
    /\ hostInstanceID = << >>
    /\ pillarMetrics = << >>
    /\ events = << >>
    /\ iterations = 0

\* filepath.Clean(p), for paths without "..": empty and "." names go
Clean(p) == SelectSeq(p, LAMBDA name : name # << >> /\ name # <<".">>)

\* filepath.Dir(p) of a clean path
Dir(p) == SubSeq(p, 1, Len(p) - 1)

\* filepath.Base(p) of a clean path
Base(p) == p[Len(p)]

\* filepath.Ext(name): the suffix that starts at the last '.'
Ext(name) ==
    LET dot == LastIndex(name, <<".">>)
    IN  IF dot = 0 THEN << >> ELSE SubSeq(name, dot, Len(name))

\* strings.TrimSuffix(s, suffix)
TrimSuffix(s, suffix) ==
    IF Len(s) >= Len(suffix) /\ SubSeq(s, Len(s) - Len(suffix) + 1, Len(s)) = suffix
    THEN SubSeq(s, 1, Len(s) - Len(suffix))
    ELSE s

DigitValue == [d \in Digits |->
    CASE d = "0" -> 0 [] d = "1" -> 1 [] d = "2" -> 2 [] d = "3" -> 3 [] d = "4" -> 4
      [] d = "5" -> 5 [] d = "6" -> 6 [] d = "7" -> 7 [] d = "8" -> 8 [] d = "9" -> 9]

\* strconv.Atoi(s) of an unsigned digit string
RECURSIVE AtoiValue(_)
AtoiValue(s) ==
    IF Len(s) = 0 THEN 0
    ELSE 10 * AtoiValue(SubSeq(s, 1, Len(s) - 1)) + DigitValue[s[Len(s)]]

\* the names os.ReadDir(dir) lists
ReadDir(f, dir) == {Base(q) : q \in {q \in DOMAIN f : Len(q) = Len(dir) + 1 /\ Dir(q) = dir}}

\* the file system without the file at path p: os.Remove(p)
Remove(f, p) == [q \in DOMAIN f \ {p} |-> f[q]]

\* the file system with data written at path p: os.WriteFile(p, data, perm)
WriteFile(f, p, data) == [q \in DOMAIN f \cup {p} |-> IF q = p THEN RegularNode(data) ELSE f[q]]

errNotExist == Err(<<"no", " ", "such", " ", "file", " ", "or", " ", "directory">>)

errNotADirectory == Err(<<"provided", " ", "path", " ", "is", " ", "not", " ", "a", " ", "directory">>)

\* fmt.Errorf("<text>: %w", err)
Wrap(text, err) == Err(text \o <<":", " ">> \o err.msg)

validateDirectory(f, dirPath) ==
    IF dirPath \notin DOMAIN f THEN errNotExist
    ELSE IF f[dirPath].type # "dir" THEN errNotADirectory
    ELSE Nil

----------------------------------------------------------------------------
(* Telemetry history: metrics/history.go *)

\* the clock counts ticks, so that time.Now() can fall between two seconds
TicksPerSecond == 2

\* time.Unix(sec, 0)
Unix(sec) == [far |-> FALSE, ticks |-> sec * TicksPerSecond]

\* keepInterval is written in decimal digits.  A keepInterval above
\* 9223372036 does not fit, as nanoseconds, the 64 bits of time.Duration:
\* -time.Duration(keepInterval) * time.Second wraps.  For 9999999999 it
\* wraps to +8446744074709551616 ns, 267 years forward.
WrappingKeepInterval == <<"9", "9", "9", "9", "9", "9", "9", "9", "9", "9">>

\* an instant: ticks of the clock, or far, later than every instant the
\* clock and the file names of the model reach
Instant(ticks) == [far |-> FALSE, ticks |-> ticks]

FarFuture == [far |-> TRUE, ticks |-> 0]

\* time.Now().Add(-time.Duration(keepInterval) * time.Second)
timeThreshold(t, keepInterval) ==
    IF keepInterval = WrappingKeepInterval THEN FarFuture
    ELSE Instant(t.ticks - AtoiValue(keepInterval) * TicksPerSecond)

\* t.After(u), t an instant of the clock's reach
After(t, u) == ~u.far /\ t.ticks > u.ticks

\* strconv.Atoi(s) of a string AtoiOk accepts, without a '-' sign
AtoiUnsigned(s) == IF s[1] = "+" THEN AtoiValue(Tail(s)) ELSE AtoiValue(s)

JsonExt == <<".", "j", "s", "o", "n">>

\* CleanupMetricsHistory keeping every file, whatever its age
CleanupMetricsHistory_KeepAll(f, historyDirectoryPath, keepInterval, t) ==
    LET cleanHistoryPath == Clean(historyDirectoryPath)
        dirErr           == validateDirectory(f, cleanHistoryPath)
    IN  IF dirErr.isErr
        THEN [fs |-> f, err |-> Wrap(<<"can't read directory with history metrics files">>, dirErr)]
        ELSE [fs |-> f, err |-> Nil]

\* CleanupMetricsHistory(historyDirectoryPath, keepInterval) at time t:
\* the file system it leaves and the error it returns
CleanupMetricsHistory(f, historyDirectoryPath, keepInterval, t) ==
    LET cleanHistoryPath == Clean(historyDirectoryPath)
        dirErr           == validateDirectory(f, cleanHistoryPath)
        threshold        == timeThreshold(t, keepInterval)
        Removed(name) ==
            LET fileExt == Ext(name)
                prefix  == Split(TrimSuffix(name, fileExt), "-")[1]
            IN  /\ f[Append(cleanHistoryPath, name)].type = "regular"
                /\ fileExt = JsonExt
                /\ AtoiOk(prefix)
                /\ ~After(Unix(AtoiUnsigned(prefix)), threshold)
        removed == {Append(cleanHistoryPath, name) : name \in {n \in ReadDir(f, cleanHistoryPath) : Removed(n)}}
    IN  IF dirErr.isErr
        THEN [fs |-> f, err |-> Wrap(<<"can't read directory with history metrics files">>, dirErr)]
        ELSE [fs |-> [q \in DOMAIN f \ removed |-> f[q]], err |-> Nil]

\* a nil *ReportRequest
NilReport == [nil |-> TRUE]

\* names of the ProductFamily enum, by number
ProductFamilyName == <<"PRODUCT_FAMILY_PS", "PRODUCT_FAMILY_PXC", "PRODUCT_FAMILY_PSMDB">>

\* protojson of one field: a field of zero value is left out
JsonField(key, value, zero) == IF value = zero THEN << >> ELSE <<<<key, value>>>>

\* protojson.Marshal of a GenericReport: lowerCamelCase keys, the enum by
\* its name
MarshalGenericReport(r) ==
    JsonField("id", r.Id, "")
    \o JsonField("instanceId", r.InstanceId, "")
    \o JsonField("productFamily",
                 IF r.ProductFamily = 0 THEN "" ELSE ProductFamilyName[r.ProductFamily], "")
    \o JsonField("metrics",
                 [i \in 1..Len(r.Metrics) |->
                     JsonField("key", r.Metrics[i].Key, "") \o JsonField("value", r.Metrics[i].Value, "")],
                 << >>)

\* protojson.Marshal(platformReport)
Marshal(req) ==
    JsonField("reports", [i \in 1..Len(req.Reports) |-> MarshalGenericReport(req.Reports[i])], << >>)

\* the value of key in a JSON object, zero when the key is absent
JsonGet(obj, key, zero) ==
    IF \E i \in 1..Len(obj) : obj[i][1] = key
    THEN obj[CHOOSE i \in 1..Len(obj) : obj[i][1] = key][2]
    ELSE zero

UnmarshalGenericReport(obj) ==
    [Id            |-> JsonGet(obj, "id", ""),
     InstanceId    |-> JsonGet(obj, "instanceId", ""),
     ProductFamily |-> LET name == JsonGet(obj, "productFamily", "")
                       IN  IF name = "" THEN 0
                           ELSE CHOOSE n \in 1..Len(ProductFamilyName) : ProductFamilyName[n] = name,
     Metrics       |-> LET ms == JsonGet(obj, "metrics", << >>)
                       IN  [i \in 1..Len(ms) |-> [Key   |-> JsonGet(ms[i], "key", ""),
                                                  Value |-> JsonGet(ms[i], "value", "")]]]

\* protojson.Unmarshal(bytes, result)
Unmarshal(data) ==
    LET rs == JsonGet(data, "reports", << >>)
    IN  [Reports |-> [i \in 1..Len(rs) |-> UnmarshalGenericReport(rs[i])]]

errInvalidReport == Err(<<"invalid Percona Platform report, ReportRequest.Reports is empty">>)

\* WriteMetricsToHistory creating the missing directory of the file
WriteMetricsToHistory_MkdirAll(f, historyFile, platformReport) ==
    IF platformReport = NilReport \/ Len(platformReport.Reports) = 0
    THEN [fs |-> f, err |-> errInvalidReport]
    ELSE LET cleanFilePath == Clean(historyFile)
             dirPath       == Dir(cleanFilePath)
             made          == [q \in DOMAIN f \cup {dirPath} |-> IF q \in DOMAIN f THEN f[q] ELSE DirNode]
         IN  [fs |-> WriteFile(made, cleanFilePath, Marshal(platformReport)), err |-> Nil]

\* WriteMetricsToHistory(historyFile, platformReport): the file system it
\* leaves and the error it returns
WriteMetricsToHistory(f, historyFile, platformReport) ==
    IF platformReport = NilReport \/ Len(platformReport.Reports) = 0
    THEN [fs |-> f, err |-> errInvalidReport]
    ELSE LET cleanFilePath == Clean(historyFile)
             dirPath       == Dir(cleanFilePath)
             dirErr        == validateDirectory(f, dirPath)
         IN  IF dirErr.isErr
             THEN [fs |-> f, err |-> Wrap(<<"can't read directory with history metric files">>, dirErr)]
             ELSE IF cleanFilePath \in DOMAIN f /\ f[cleanFilePath].type = "dir"
             THEN [fs |-> f, err |-> Wrap(<<"can't write history file">>, Err(<<"is a directory">>))]
             ELSE [fs |-> WriteFile(f, cleanFilePath, Marshal(platformReport)), err |-> Nil]

----------------------------------------------------------------------------
(* Host metrics: metrics/host.go *)

InstanceIDKey == "instanceId"

\* UUIDs in their canonical 36-character form, one symbol each
StoredUUIDs == {"uuid-A", "uuid-B"}

\* what getRandomUUID() may return
RandomUUIDs == {"uuid-X", "uuid-Y"}

\* uuid.Validate(s) = nil: the canonical form, or the same in braces
uuidValidate(s) ==
    \/ Len(s) = 1 /\ s[1] \in StoredUUIDs \cup RandomUUIDs
    \/ Len(s) = 3 /\ s[1] = "{" /\ s[2] \in StoredUUIDs \cup RandomUUIDs /\ s[3] = "}"

\* The tokens a scanner with customSplitFunc delivers, and scanner.Err():
\* lines without their newline, a carriage return kept
RECURSIVE CustomScan(_)
CustomScan(data) ==
    IF Len(data) = 0 THEN [lines |-> << >>, err |-> Nil]
    ELSE LET nl   == Index(data, <<"\n">>)
             raw  == IF nl = 0 THEN data ELSE SubSeq(data, 1, nl - 1)
             rest == IF nl = 0 THEN << >> ELSE SubSeq(data, nl + 1, Len(data))
         IN  IF ByteLen(raw) >= MaxScanTokenSize
             THEN [lines |-> << >>, err |-> ErrTooLong]
             ELSE LET r == CustomScan(rest)
                  IN  [lines |-> <<raw>> \o r.lines, err |-> r.err]

\* os.MkdirAll(dirName, perm): dirName and its missing ancestors become
\* directories
MkdirAll(f, dirName) ==
    LET made == {SubSeq(dirName, 1, k) : k \in 1..Len(dirName)}
    IN  [q \in DOMAIN f \cup made |-> IF q \in DOMAIN f THEN f[q] ELSE DirNode]

\* createTelemetryFile(instanceFile, instanceID); a write that fails is
\* logged and leaves the file system as it was
createTelemetryFile(f, instanceFile, instanceID) ==
    IF \/ Dir(instanceFile) \notin DOMAIN f
       \/ f[Dir(instanceFile)].type # "dir"
       \/ (instanceFile \in DOMAIN f /\ f[instanceFile].type = "dir")
    THEN f
    ELSE WriteFile(f, instanceFile, <<InstanceIDKey, ":", instanceID>>)

\* the lines of the scanner loop of getInstanceID that set instanceID
KeyLines(lines) ==
    {i \in 1..Len(lines) : LET parts == Split(lines[i], ":")
                           IN  Len(parts) = 2 /\ parts[1] = <<InstanceIDKey>>}

\* getInstanceID reading the last instanceId line of the file
getInstanceID_LastKeyLine(f, instanceFile, newInstanceID) ==
    LET cleanInstanceFile == Clean(instanceFile)
        dirName           == Dir(cleanInstanceFile)
        fresh(g)          == [fs |-> createTelemetryFile(g, cleanInstanceFile, newInstanceID),
                              id |-> <<newInstanceID>>]
    IN  IF dirName \notin DOMAIN f THEN fresh(MkdirAll(f, dirName))
        ELSE IF cleanInstanceFile \notin DOMAIN f \/ f[cleanInstanceFile].type # "regular" THEN fresh(f)
        ELSE IF Len(f[cleanInstanceFile].data) = 0 THEN fresh(f)
        ELSE LET sc         == CustomScan(f[cleanInstanceFile].data)
                 keys       == KeyLines(sc.lines)
                 instanceID == IF keys = {} THEN << >>
                               ELSE TrimSpace(Split(sc.lines[Max(keys)], ":")[2])
             IN  IF keys = {} /\ sc.err.isErr THEN fresh(f)
                 ELSE IF ~uuidValidate(instanceID) THEN fresh(f)
                 ELSE [fs |-> f, id |-> instanceID]

\* getInstanceID(instanceFile) when getRandomUUID() returns newInstanceID:
\* the file system it leaves and the ID it returns
getInstanceID(f, instanceFile, newInstanceID) ==
    LET cleanInstanceFile == Clean(instanceFile)
        dirName           == Dir(cleanInstanceFile)
        fresh(g)          == [fs |-> createTelemetryFile(g, cleanInstanceFile, newInstanceID),
                              id |-> <<newInstanceID>>]
    IN  IF dirName \notin DOMAIN f THEN fresh(MkdirAll(f, dirName))
        ELSE IF cleanInstanceFile \notin DOMAIN f \/ f[cleanInstanceFile].type # "regular" THEN fresh(f)
        ELSE IF Len(f[cleanInstanceFile].data) = 0 THEN fresh(f)
        ELSE LET sc         == CustomScan(f[cleanInstanceFile].data)
                 keys       == KeyLines(sc.lines)
                 instanceID == IF keys = {} THEN << >>
                               ELSE TrimSpace(Split(sc.lines[Min(keys)], ":")[2])
             IN  IF keys = {} /\ sc.err.isErr THEN fresh(f)
                 ELSE IF ~uuidValidate(instanceID) THEN fresh(f)
                 ELSE [fs |-> f, id |-> instanceID]

----------------------------------------------------------------------------
(* The parsers applied to one input *)

NoCall == [fn |-> "none"]

NoRet == [none |-> TRUE]

FnCalls ==
    PackageOutputCalls("parseDebianPackageOutput", DebianOutputs)
    \cup PackageOutputCalls("parseRhelPackageOutput", RhelOutputs)
    \cup VersionCalls
    \cup RegistryCalls
    \cup RepositoryCalls
    \cup ClassifierCalls
    \cup DebianVersionCalls
    \cup RhelVersionCalls
    \cup RepositoryLineCalls
    \cup PackageManagerCalls

ScanIdle ==
    /\ localOs = << >>
    /\ path = {}
    /\ pc = "idle"
    /\ pkgFunc = "none"
    /\ idx = 0
    /\ toReturn = << >>
    /\ results = << >>
    /\ repoErrs = << >>
    /\ cmds = << >>
    /\ logs = << >>

InitFn ==
    /\ call \in FnCalls
    /\ ret = NoRet
    /\ ScanIdle
    /\ FilesIdle
    /\ AgentIdle

Call_parseDebianPackageOutput ==
    /\ ret = NoRet
    /\ call.fn = "parseDebianPackageOutput"
    /\ ret' = parseDebianPackageOutput(call.out, call.err, call.isPercona)
    /\ UNCHANGED <<call, scanVars, fileVars, agentVars>>

Call_parseRhelPackageOutput ==
    /\ ret = NoRet
    /\ call.fn = "parseRhelPackageOutput"
    /\ ret' = parseRhelPackageOutput(call.out, call.err, call.isPercona)
    /\ UNCHANGED <<call, scanVars, fileVars, agentVars>>

\* the Debian form '<upstream>-<r1>[-<r2>].<codename>' of a version
DebianForm(upstream, release, codename) ==
    upstream \o <<"-">> \o Join(release, "-") \o <<".">> \o codename

\* the RHEL release '<r1>[.<r2>].<disttag>'
RhelReleaseForm(release, disttag) == Join(release, ".") \o <<".">> \o disttag

\* both normalizers applied to the two forms of one first-party version
Call_normalizeVersions ==
    /\ ret = NoRet
    /\ call.fn = "normalizeVersions"
    /\ ret' = [deb  |-> parseDebianPackageVersion(
                            DebianForm(call.upstream, call.release, call.codename), TRUE),
               rhel |-> parseRhelPackageVersion(
                            call.upstream, RhelReleaseForm(call.release, call.disttag), TRUE)]
    /\ UNCHANGED <<call, scanVars, fileVars, agentVars>>

Call_parseDebianPackageVersion ==
    /\ ret = NoRet
    /\ call.fn = "parseDebianPackageVersion"
    /\ ret' = [version |-> parseDebianPackageVersion(RawVersion(call.epoch, call.rest), call.isPercona)]
    /\ UNCHANGED <<call, scanVars, fileVars, agentVars>>

Call_parseRhelPackageVersion ==
    /\ ret = NoRet
    /\ call.fn = "parseRhelPackageVersion"
    /\ ret' = [version |-> parseRhelPackageVersion(call.version, call.release, call.isPercona)]
    /\ UNCHANGED <<call, scanVars, fileVars, agentVars>>

Call_parseRhelPackageRegistry ==
    /\ ret = NoRet
    /\ call.fn = "parseRhelPackageRegistry"
    /\ ret' = parseRhelPackageRegistry(call.repo, call.isPercona)
    /\ UNCHANGED <<call, scanVars, fileVars, agentVars>>

Call_parseDebianRepositoryOutput ==
    /\ ret = NoRet
    /\ call.fn = "parseDebianRepositoryOutput"
    /\ ret' = parseDebianRepositoryOutput(call.out, call.err, call.isPercona)
    /\ UNCHANGED <<call, scanVars, fileVars, agentVars>>

Call_parseDebianPackageRepositoryLine ==
    /\ ret = NoRet
    /\ call.fn = "parseDebianPackageRepositoryLine"
    /\ ret' = parseDebianPackageRepositoryLine(call.line, call.isPercona)
    /\ UNCHANGED <<call, scanVars, fileVars, agentVars>>

Call_getRhelPackageManagerCmd ==
    /\ ret = NoRet
    /\ call.fn = "getRhelPackageManagerCmd"
    /\ ret' = getRhelPackageManagerCmd(call.os, call.onPath)
    /\ UNCHANGED <<call, scanVars, fileVars, agentVars>>

Call_DistroFamily ==
    /\ ret = NoRet
    /\ call.fn = "DistroFamily"
    /\ ret' = [family |-> DistroFamily(call.osName),
               debian |-> isDebianFamily(call.osName),
               rhel   |-> isRHELFamily(call.osName)]
    /\ UNCHANGED <<call, scanVars, fileVars, agentVars>>

NextFn ==
    \/ Call_parseDebianPackageOutput
    \/ Call_parseRhelPackageOutput
    \/ Call_normalizeVersions
    \/ Call_parseRhelPackageRegistry
    \/ Call_parseDebianRepositoryOutput
    \/ Call_DistroFamily
    \/ Call_parseDebianPackageVersion
    \/ Call_parseRhelPackageVersion
    \/ Call_parseDebianPackageRepositoryLine
    \/ Call_getRhelPackageManagerCmd

SpecFn == InitFn /\ [][NextFn]_vars

----------------------------------------------------------------------------
(* Properties of the backend parsers *)

Returned(fn) == call.fn = fn /\ ret # NoRet

ParserReturned == Returned("parseDebianPackageOutput") \/ Returned("parseRhelPackageOutput")

\* C3: every Package either backend parser returns has a non-empty name.
C3_NameNeverEmpty ==
    ParserReturned => \A i \in 1..Len(ret.pkgs) : Len(ret.pkgs[i].Name) # 0

\* C4: every Package either backend parser returns has a non-empty version.
C4_VersionNeverEmpty ==
    ParserReturned => \A i \in 1..Len(ret.pkgs) : Len(ret.pkgs[i].Version) # 0

\* the lines of an output, as its newlines delimit them
OutputLines(out) ==
    LET parts == Split(out, "\n")
    IN  IF parts[Len(parts)] = << >> THEN SubSeq(parts, 1, Len(parts) - 1) ELSE parts

\* the line passes every filter of the backend's scanner loop
Survives(fn, text, isPercona) ==
    IF fn = "parseDebianPackageOutput"
    THEN DebianLinePackages(text, isPercona) # << >>
    ELSE RhelLinePackages(text, isPercona) # << >>

NoSurvivor ==
    \A i \in 1..Len(OutputLines(call.out)) : ~Survives(call.fn, OutputLines(call.out)[i], call.isPercona)

SomeLineTooLong ==
    \E i \in 1..Len(OutputLines(call.out)) : ByteLen(OutputLines(call.out)[i]) >= MaxScanTokenSize

\* C5 (as claimed): after a successful invocation the parser returns
\* not-found exactly when no output line survives filtering, and a return
\* without error carries at least one Package.
C5_NotFoundIffNoSurvivor ==
    (ParserReturned /\ ~call.err.isErr) =>
        /\ (ret.err = errPackageNotFound) <=> NoSurvivor
        /\ ~ret.err.isErr => Len(ret.pkgs) >= 1

\* C5 (amended): after a successful invocation whose output lines all fit
\* the scanner's buffer, the parser returns not-found exactly when no line
\* survives filtering; a line of MaxScanTokenSize bytes or more makes it
\* return the scanner's error and no Package; a return without error carries
\* at least one Package, a return with an error carries none.
C5_NotFoundIffNoSurvivorScanned ==
    (ParserReturned /\ ~call.err.isErr) =>
        /\ ~SomeLineTooLong => ((ret.err = errPackageNotFound) <=> NoSurvivor)
        /\ SomeLineTooLong => ret = Result(<< >>, ErrTooLong)
        /\ ~ret.err.isErr => Len(ret.pkgs) >= 1
        /\ ret.err.isErr => Len(ret.pkgs) = 0

\* C5 witness: a Debian output with lines, none of which survives, was
\* answered with not-found.
C5_Witness ==
    /\ Returned("parseDebianPackageOutput")
    /\ ~call.err.isErr
    /\ Len(OutputLines(call.out)) = 2
    /\ OutputLines(call.out)[1] # << >>
    /\ NoSurvivor
    /\ ret.err = errPackageNotFound

\* C7: a failed dpkg-query invocation whose output contains "no packages
\* found matching" is answered with not-found; every other failed invocation
\* is answered with the invocation's own error and no packages.
C7_NoMatchTextInOutput ==
    (Returned("parseDebianPackageOutput") /\ call.err.isErr) =>
        IF Contains(call.out, NoPackagesText)
        THEN ret = Result(<< >>, errPackageNotFound)
        ELSE ret = Result(<< >>, call.err)

\* C8: a failed RHEL invocation is answered with the invocation's own error
\* and no packages, never with not-found, whatever the output holds.
C8_RhelErrorIsHard ==
    (Returned("parseRhelPackageOutput") /\ call.err.isErr) =>
        /\ ret = Result(<< >>, call.err)
        /\ ret.err # errPackageNotFound

\* C8 witness: the failed invocation printed dpkg's no-match text and the
\* parser still returned the invocation's error.
C8_Witness ==
    /\ Returned("parseRhelPackageOutput")
    /\ call.err.isErr
    /\ Contains(call.out, NoPackagesText)
    /\ ret.err = call.err

----------------------------------------------------------------------------
(* Properties of the normalizers and the repository resolvers *)

\* C6: for a first-party version given in its Debian form and in its RHEL
\* form, both normalizers return '<upstream>-<r1>[-<r2>]'.
C6_SameCanonicalVersion ==
    Returned("normalizeVersions") =>
        /\ ret.deb = ret.rhel
        /\ ret.deb = call.upstream \o <<"-">> \o Join(call.release, "-")

\* C6 witness: a version with two release components, which the Debian
\* version parser accepts, went through both normalizers.
C6_Witness ==
    /\ Returned("normalizeVersions")
    /\ Len(call.release) = 2
    /\ NewVersion(call.upstream \o <<"-">> \o Join(call.release, "-")).ok
    /\ ret.rhel = call.upstream \o <<"-">> \o Join(call.release, "-")

\* C10 (as claimed): no first-party repository, of either resolver, has the
\* component "main".
C10_NoFirstPartyMain ==
    /\ (Returned("parseRhelPackageRegistry") /\ call.isPercona) => ret.Component # <<"main">>
    /\ (Returned("parseDebianRepositoryOutput") /\ call.isPercona /\ ~ret.err.isErr)
            => ret.repo.Component # <<"main">>

\* C10 (amended): in the Debian resolver a first-party raw component "main"
\* is reported as "release", so no first-party repository it returns has
\* the component "main".
C10_DebianMainIsRelease ==
    (Returned("parseDebianRepositoryOutput") /\ call.isPercona /\ ~ret.err.isErr) =>
        /\ ret.repo.Component # <<"main">>
        /\ parseDebianRepositoryOutput(call.out, call.err, FALSE).repo.Component = <<"main">>
                => ret.repo.Component = <<"release">>

\* C10 witness: a first-party package installed from <dist>/main was
\* resolved to the component "release".
C10_Witness ==
    /\ Returned("parseDebianRepositoryOutput")
    /\ call.isPercona
    /\ Contains(call.out, <<"jammy", "/", "main">>)
    /\ ~ret.err.isErr
    /\ ret.repo = [Name |-> <<"ps">>, Component |-> <<"release">>]

----------------------------------------------------------------------------
(* The loop of ScrapeInstalledPackages: metrics/package.go *)

\* the loop leaving at the first pattern whose query failed
AfterPattern_StopOnError(i, err) ==
    IF err.isErr /\ err # errPackageNotFound
    THEN [pc |-> "done", idx |-> i + 1]
    ELSE [pc |-> "loop", idx |-> i + 1]

\* where the loop of ScrapeInstalledPackages goes after a pattern whose
\* query returned err: to the next pattern, whatever err is
AfterPattern(i, err) == [pc |-> "loop", idx |-> i + 1]

\* the loop logging a failure only for the first pattern of the scan
PatternWarnings_FirstPatternOnly(pattern, err) ==
    IF err.isErr /\ err # errPackageNotFound /\ pattern = pkgList[1]
    THEN <<[level |-> "warn", msg |-> "failed to get package info", subject |-> <<pattern>>, err |-> err]>>
    ELSE << >>

\* the warnings the loop logs for a pattern whose query returned err
PatternWarnings(pattern, err) ==
    IF err.isErr /\ err # errPackageNotFound
    THEN <<[level |-> "warn", msg |-> "failed to get package info", subject |-> <<pattern>>, err |-> err]>>
    ELSE << >>

\* the enrichment dropping a package whose repository query failed
enrichDebianRepositories_DropFailed(pkgL, repoResults) ==
    LET RECURSIVE Keep(_)
        Keep(n) == IF n = 0 THEN << >>
                   ELSE Keep(n - 1) \o (IF repoResults[n].err.isErr THEN << >>
                                        ELSE <<[pkgL[n] EXCEPT !.Repository = repoResults[n].repo]>>)
    IN  Keep(Len(pkgL))

\* Debian only: each package of a successful query gets the repository its
\* follow-up queryDebianRepository call resolved; a failed call leaves the
\* zero value
enrichDebianRepositories(pkgL, repoResults) ==
    [i \in 1..Len(pkgL) |->
        IF repoResults[i].err.isErr THEN pkgL[i]
        ELSE [pkgL[i] EXCEPT !.Repository = repoResults[i].repo]]

\* sequence of the elements of s at the positions satisfying Keep
RECURSIVE SelectPositions(_, _)
SelectPositions(n, keep) ==
    IF n = 0 THEN << >>
    ELSE SelectPositions(n - 1, keep) \o (IF n \in keep THEN <<n>> ELSE << >>)

----------------------------------------------------------------------------
(* The host a scan runs on: OS strings and command runs *)

OsUbuntu == <<"U", "b", "u", "n", "t", "u", " ", "2", "2">>

OsCentOS == <<"C", "e", "n", "t", "O", "S", " ", "7">>

OsRocky == <<"R", "o", "c", "k", "y", " ", "9">>

OsDarwin == <<"D", "a", "r", "w", "i", "n">>

\* unknownOS of getOSInfo
OsUnknown == <<"u", "n", "k", "n", "o", "w", "n">>

\* OS strings of hosts that are neither Debian family nor RHEL family
UnsupportedOSNames == {OsDarwin, OsUnknown}

OSNames == {OsUbuntu, OsCentOS, OsRocky} \cup UnsupportedOSNames

RhelBinaries == {"repoquery", "yum", "dnf"}

Run(out, err) == [out |-> out, err |-> err]

\* the error of exec.Cmd when the 30 s timeout kills the tool
KilledErr == Err(<<"signal:", " ", "killed">>)

\* dpkg-query matching nothing: exit status 1 and the no-match text
DpkgNoMatchRun == Run(Output(<<NoPackagesLine>>), ExitStatusErr)

ScanDpkgRuns ==
    {DpkgNoMatchRun,
     Run(Output(<<DebianLine(<<"u", "n", " ">>, <<"p">>, << >>)>>), Nil),
     Run(Output(<<DebianLine(<<"i", "i", " ">>, <<"p">>, <<"1", ".", "0", "-", "1", ".", "jammy">>)>>), Nil),
     Run(Output(<<DebianLine(<<"i", "i", " ">>, <<"p">>, <<"1", ".", "0", "-", "1", ".", "jammy">>),
                  DebianLine(<<"i", "H", "R", " ">>, <<"q", ":", "a">>, <<"2", ".", "0", ".", "jammy">>)>>), Nil),
     Run(<< >>, KilledErr)}

\* repoquery matching nothing: no output, no error
RhelNoMatchRun == Run(<< >>, Nil)

ScanRhelRuns ==
    {RhelNoMatchRun,
     Run(Output(<<RhelLine(<<"p">>, <<"1", ".", "0">>, <<"1", ".", "el">>, <<"ps", "-", "release", "-", "x">>)>>), Nil),
     Run(Output(<<RhelLine(<<"p">>, <<"1", ".", "0">>, <<"1", ".", "el">>, <<"ps", "-", "release", "-", "x">>),
                  RhelLine(<<"q">>, <<"2", ".", "0">>, << >>, << >>)>>), Nil),
     Run(<< >>, KilledErr)}

\* apt-cache policy: resolved, failed, unknown package, malformed
ScanAptRuns ==
    {Run(Output(<<AptHeaderLine, AptInstalledLine, AptMainLine, AptStatusLine>>), Nil),
     Run(<< >>, ExitStatusErr),
     Run(Output(<<AptUnableLine>>), Nil),
     Run(Output(<<AptHeaderLine, AptInstalledNoPriorityLine, AptStatusLine>>), Nil)}

\* patterns so far whose query was something other than a plain no-match
Hits == Cardinality({i \in 1..Len(results) : results[i].run \notin {DpkgNoMatchRun, RhelNoMatchRun}})

\* queryDebianPackage(ctx, pattern): what it may return, with the run of
\* dpkg-query behind each answer
queryDebianPackage ==
    [pattern \in {pkgList[i] : i \in 1..Len(pkgList)} |->
        {[run |-> r, res |-> parseDebianPackageOutput(r.out, r.err, isPerconaPackage(pattern))] :
            r \in ScanDpkgRuns}]

\* queryDebianRepository(ctx, name, isPerconaPackage): what it may return
queryDebianRepository ==
    [isPercona \in BOOLEAN |->
        {parseDebianRepositoryOutput(r.out, r.err, isPercona) : r \in ScanAptRuns}]

\* queryRhelPackage(ctx, localOS, pattern): what it may return, with the
\* command executed (none when no package manager is on PATH) and its run
queryRhelPackage ==
    [os \in OSNames, onPath \in SUBSET RhelBinaries, pattern \in {pkgList[i] : i \in 1..Len(pkgList)} |->
        LET mng == getRhelPackageManagerCmd(os, onPath)
        IN  IF mng.err.isErr
            THEN {[cmd |-> << >>, run |-> RhelNoMatchRun, res |-> Result(<< >>, mng.err)]}
            ELSE {[cmd |-> Append(mng.cmd, pattern), run |-> r,
                   res |-> parseRhelPackageOutput(r.out, r.err, isPerconaPackage(pattern))] :
                     r \in ScanRhelRuns}]

----------------------------------------------------------------------------
(* ScrapeInstalledPackages, one step per command round *)

Init ==
    /\ call = NoCall
    /\ ret = NoRet
    /\ localOs \in OSNames
    /\ path \in IF localOs \in {OsCentOS, OsRocky} THEN SUBSET RhelBinaries ELSE {{}}
    /\ pc = "start"
    /\ pkgFunc = "none"
    /\ idx = 0
    /\ toReturn = << >>
    /\ results = << >>
    /\ repoErrs = << >>
    /\ cmds = << >>
    /\ logs = << >>
    /\ FilesIdle
    /\ AgentIdle

\* package.go:364-380: select the backend, or give up on an unknown OS
Classify ==
    /\ pc = "start"
    /\ IF isDebianFamily(localOs)
       THEN pc' = "loop" /\ pkgFunc' = "queryDebianPackage" /\ logs' = logs
       ELSE IF isRHELFamily(localOs)
       THEN pc' = "loop" /\ pkgFunc' = "queryRhelPackage" /\ logs' = logs
       ELSE /\ pc' = "done"
            /\ pkgFunc' = "none"
            /\ logs' = Append(logs, [level |-> "warn", msg |-> "unsupported package system",
                                     subject |-> localOs])
    /\ UNCHANGED <<call, ret, localOs, path, idx, toReturn, results, repoErrs, cmds, fileVars, agentVars>>

\* one iteration of the loop on a Debian host: dpkg-query for the pattern,
\* then apt-cache policy for every package found
IterateDebian ==
    /\ pc = "loop"
    /\ pkgFunc = "queryDebianPackage"
    /\ idx < Len(pkgList)
    /\ LET pattern == pkgList[idx + 1]
       IN  \E q \in queryDebianPackage[pattern] :
            LET pkgL  == IF q.res.err.isErr THEN << >> ELSE q.res.pkgs
                after == AfterPattern(idx, q.res.err)
            IN  /\ q.run = DpkgNoMatchRun \/ Hits < MaxHits
                /\ \E repoResults \in [1..Len(pkgL) -> queryDebianRepository[isPerconaPackage(pattern)]] :
                    LET failed == SelectPositions(Len(pkgL), {i \in 1..Len(pkgL) : repoResults[i].err.isErr})
                    IN  /\ toReturn' = toReturn \o enrichDebianRepositories(pkgL, repoResults)
                        /\ repoErrs' = repoErrs \o [k \in 1..Len(failed) |-> Len(toReturn) + failed[k]]
                        /\ cmds' = cmds \o <<<<"dpkg-query", "-W", pattern>>>>
                                        \o [i \in 1..Len(pkgL) |-> <<"apt-cache", "policy", pkgL[i].Name>>]
                        /\ logs' = logs \o PatternWarnings(pattern, q.res.err)
                                        \o [k \in 1..Len(failed) |->
                                               [level |-> "warn", msg |-> "failed to get package repository",
                                                subject |-> pkgL[failed[k]].Name]]
                /\ results' = Append(results, [pattern |-> pattern, run |-> q.run, res |-> q.res])
                /\ pc' = after.pc
                /\ idx' = after.idx
    /\ UNCHANGED <<call, ret, localOs, path, pkgFunc, fileVars, agentVars>>

\* one iteration of the loop on a RHEL host: queryRhelPackage for the pattern
IterateRhel ==
    /\ pc = "loop"
    /\ pkgFunc = "queryRhelPackage"
    /\ idx < Len(pkgList)
    /\ LET pattern == pkgList[idx + 1]
       IN  \E q \in queryRhelPackage[localOs, path, pattern] :
            LET after == AfterPattern(idx, q.res.err)
            IN  /\ q.run = RhelNoMatchRun \/ Hits < MaxHits
                /\ toReturn' = IF q.res.err.isErr THEN toReturn ELSE toReturn \o q.res.pkgs
                /\ cmds' = IF q.cmd = << >> THEN cmds ELSE Append(cmds, q.cmd)
                /\ logs' = logs \o PatternWarnings(pattern, q.res.err)
                /\ results' = Append(results, [pattern |-> pattern, run |-> q.run, res |-> q.res])
                /\ pc' = after.pc
                /\ idx' = after.idx
    /\ UNCHANGED <<call, ret, localOs, path, pkgFunc, repoErrs, fileVars, agentVars>>

\* package.go:394: the loop is over, toReturn is returned
Return ==
    /\ pc = "loop"
    /\ idx = Len(pkgList)
    /\ pc' = "done"
    /\ UNCHANGED <<call, ret, localOs, path, pkgFunc, idx, toReturn, results, repoErrs, cmds, logs, fileVars, agentVars>>

Next ==
    \/ Classify
    \/ IterateDebian
    \/ IterateRhel
    \/ Return

Spec == Init /\ [][Next]_vars

----------------------------------------------------------------------------
(* Properties of the scan *)

\* the package lists of the successful queries, in query order
RECURSIVE ConcatSuccesses(_)
ConcatSuccesses(rs) ==
    IF Len(rs) = 0 THEN << >>
    ELSE ConcatSuccesses(SubSeq(rs, 1, Len(rs) - 1))
         \o (IF rs[Len(rs)].res.err.isErr THEN << >> ELSE rs[Len(rs)].res.pkgs)

NameVersion(pkgs) == [i \in 1..Len(pkgs) |-> <<pkgs[i].Name, pkgs[i].Version>>]

\* C1: whatever the queries return, every pattern of the list is queried
\* once, in list order, up to the last one, and the result is the
\* concatenation, in that order, of the lists of the successful queries.
C1_EveryPatternQueriedResultConcatenated ==
    pkgFunc # "none" =>
        /\ Len(results) = idx
        /\ \A i \in 1..idx : results[i].pattern = pkgList[i]
        /\ pc = "done" => idx = Len(pkgList)
        /\ NameVersion(toReturn) = NameVersion(ConcatSuccesses(results))
        /\ pkgFunc = "queryRhelPackage" => toReturn = ConcatSuccesses(results)

\* C1 witness: a finished scan with a not-found pattern, a failed pattern
\* and, after the failed one, a pattern whose packages are in the result.
C1_Witness ==
    /\ pc = "done"
    /\ pkgFunc # "none"
    /\ \E i, j, k \in 1..Len(results) :
        /\ results[i].res.err = errPackageNotFound
        /\ results[j].res.err.isErr /\ results[j].res.err # errPackageNotFound
        /\ j < k
        /\ ~results[k].res.err.isErr
    /\ Len(toReturn) >= 1

\* C2: on a host whose OS is neither Debian family nor RHEL family the scan
\* ends with an empty list and runs no command and no query.
C2_UnknownOsScansNothing ==
    localOs \in UnsupportedOSNames =>
        /\ pc \in {"start", "done"}
        /\ toReturn = << >>
        /\ cmds = << >>
        /\ results = << >>

\* C2 witness: the scan of such a host has returned, with its one warning.
C2_Witness ==
    /\ localOs \in UnsupportedOSNames
    /\ pc = "done"
    /\ Len(logs) = 1
    /\ logs[1].msg = "unsupported package system"

\* C9: on a Debian host every package of a successful query is in the
\* result, in query order, with one repository query each; a package whose
\* repository query failed has the zero-value repository.
C9_RepositoryFailureKeepsPackage ==
    pkgFunc = "queryDebianPackage" =>
        /\ Len(toReturn) = Len(ConcatSuccesses(results))
        /\ \A k \in 1..Len(toReturn) :
            /\ toReturn[k].Name = ConcatSuccesses(results)[k].Name
            /\ toReturn[k].Version = ConcatSuccesses(results)[k].Version
        /\ \A j \in 1..Len(repoErrs) :
            /\ repoErrs[j] \in 1..Len(toReturn)
            /\ toReturn[repoErrs[j]].Repository = EmptyRepository
        /\ Cardinality({c \in 1..Len(cmds) : cmds[c][1] = "apt-cache"}) = Len(toReturn)

\* C9 witness: a finished Debian scan in which a package whose repository
\* query failed precedes a package whose repository was resolved.
C9_Witness ==
    /\ pkgFunc = "queryDebianPackage"
    /\ pc = "done"
    /\ \E j \in 1..Len(repoErrs) : \E k \in 1..Len(toReturn) :
        /\ repoErrs[j] < k
        /\ toReturn[k].Repository = [Name |-> <<"ps">>, Component |-> <<"release">>]

----------------------------------------------------------------------------
(* Properties of the line filters of the backend parsers *)

\* number of '|'-separated fields of an output line
FieldCount(text) == Cardinality({i \in 1..Len(text) : text[i] = "|"}) + 1

\* the field count the backend's loop requires
WantedFields(fn) == IF fn = "parseDebianPackageOutput" THEN 3 ELSE 4

\* the output without its lines of a wrong field count
WithoutMiscounted(fn, out) ==
    Output(SelectSeq(OutputLines(out), LAMBDA l : FieldCount(l) = WantedFields(fn)))

ParserOf(fn, out, err, isPercona) ==
    IF fn = "parseDebianPackageOutput"
    THEN parseDebianPackageOutput(out, err, isPercona)
    ELSE parseRhelPackageOutput(out, err, isPercona)

\* C11 (as claimed): the lines of a wrong field count change nothing: the
\* parser returns for an output what it returns for the output without them.
C11_MiscountedLineSkipped ==
    (ParserReturned /\ ~call.err.isErr) =>
        ret = ParserOf(call.fn, WithoutMiscounted(call.fn, call.out), Nil, call.isPercona)

\* C11 (amended): when every line fits the scanner's buffer, the lines of a
\* wrong field count change nothing; a line of MaxScanTokenSize bytes or
\* more, whatever its field count, ends the parse with the scanner's error.
C11_MiscountedShortLineSkipped ==
    (ParserReturned /\ ~call.err.isErr) =>
        IF SomeLineTooLong
        THEN ret.err = ErrTooLong
        ELSE ret = ParserOf(call.fn, WithoutMiscounted(call.fn, call.out), Nil, call.isPercona)

\* C11 witness: a Debian output of a two-field line followed by a
\* well-formed line gave exactly one Package and no error.
C11_Witness ==
    /\ Returned("parseDebianPackageOutput")
    /\ ~call.err.isErr
    /\ Len(OutputLines(call.out)) = 2
    /\ FieldCount(OutputLines(call.out)[1]) = 2
    /\ FieldCount(OutputLines(call.out)[2]) = 3
    /\ ret.err = Nil
    /\ Len(ret.pkgs) = 1

\* the status field of a dpkg-query line, white space trimmed
StatusOf(text) == TrimSpace(Split(Trim(text, {" ", "'"}), "|")[1])

\* the output without the lines whose status is neither 'ii' nor 'iHR'
InstalledOnly(out) ==
    Output(SelectSeq(OutputLines(out), LAMBDA l : StatusOf(l) \in {<<"i", "i">>, <<"i", "H", "R">>}))

\* C12: the Debian parser returns no more Packages than the output has lines
\* of status 'ii' or 'iHR', and what it returns for an output is what it
\* returns for the lines of those two statuses alone.
C12_OnlyInstalledStatus ==
    Returned("parseDebianPackageOutput") =>
        /\ Len(ret.pkgs) <= Len(OutputLines(InstalledOnly(call.out)))
        /\ (~call.err.isErr /\ ~SomeLineTooLong) =>
                ret = parseDebianPackageOutput(InstalledOnly(call.out), Nil, call.isPercona)

\* C12 witness: of a line of status 'iHR' and a well-formed line of a status
\* that is not installed, only the first gave a Package.
C12_Witness ==
    /\ Returned("parseDebianPackageOutput")
    /\ Len(OutputLines(call.out)) = 2
    /\ StatusOf(OutputLines(call.out)[1]) = <<"i", "H", "R">>
    /\ StatusOf(OutputLines(call.out)[2]) \in {<<"u", "n">>, <<"i", "U">>}
    /\ FieldCount(OutputLines(call.out)[2]) = 3
    /\ ret.err = Nil
    /\ Len(ret.pkgs) = 1

----------------------------------------------------------------------------
(* Properties of the scan on a host without package manager *)

\* the host is of the RHEL family and PATH holds none of its candidates
NoCandidateOnPath ==
    /\ localOs \in {OsCentOS, OsRocky}
    /\ \A i \in 1..Len(RhelCandidates(localOs)) : RhelCandidates(localOs)[i][1] \notin path

\* the warnings that report the no-package-manager condition
ManagerNotFoundWarnings ==
    {k \in 1..Len(logs) : /\ logs[k].msg = "failed to get package info"
                          /\ logs[k].err = errPackageManagerNotFound}

----------------------------------------------------------------------------
(* Properties of the distro classifier *)

\* the family the words of the two prefix lists stand for
FamilyOfWord(word) ==
    IF word \in {<<"d", "e", "b", "i", "a", "n">>, <<"u", "b", "u", "n", "t", "u">>} THEN "debian"
    ELSE IF word \in {<<"e", "l">>, <<"c", "e", "n", "t", "o", "s">>, <<"o", "r", "a", "c", "l", "e">>,
                      <<"r", "o", "c", "k", "y">>, <<"r", "e", "d", " ", "h", "a", "t">>,
                      <<"a", "m", "a", "z", "o", "n">>, <<"a", "l", "m", "a">>} THEN "rhel"
    ELSE "unknown"

\* C14: an OS name is of the family of the listed word it starts with, in
\* whatever letter case, and unknown when it starts with none (a word cut
\* short, a word after a blank, another word); the two family tests never
\* both hold, and the classifier answers debian, rhel or unknown as they do.
C14_ClassifiedByLowerCasedPrefix ==
    Returned("DistroFamily") =>
        /\ ret.family = IF call.short \/ call.blank THEN "unknown" ELSE FamilyOfWord(call.word)
        /\ ~(ret.debian /\ ret.rhel)
        /\ ret.debian <=> ret.family = "debian"
        /\ ret.rhel <=> ret.family = "rhel"

\* C14 witness: "UBUNTU 8", in upper case, was classified debian.
C14_Witness ==
    /\ Returned("DistroFamily")
    /\ call.osName = <<"U", "B", "U", "N", "T", "U", "8">>
    /\ ret.family = "debian"

----------------------------------------------------------------------------
(* The history and host functions at work on a file system *)

HistoryDir == <<"h">>

\* a directory that never exists
MissingDir == <<"g">>

TelemetryDir == <<"t">>

\* telemetryFile
telemetryFile == <<TelemetryDir, <<"telemetry_uuid">>>>

OldFileName == <<"2", "-", "a">> \o JsonExt

OlderFileName == <<"1", "2", "-", "e">> \o JsonExt

NewFileName == <<"9", "-", "n">> \o JsonExt

\* entries a history directory may hold besides history files: another
\* extension, a prefix that is no number, a directory
OtherEntries ==
    [name \in {<<"5", "-", "b", ".", "t", "x", "t">>, <<"x", "-", "c">> \o JsonExt} |-> RegularNode(<< >>)]
    @@ [name \in {<<"3", "-", "d">> \o JsonExt} |-> DirNode]

HistoryEntries ==
    [name \in {OldFileName, OlderFileName} |-> RegularNode(<<<<"reports", << >>>>>>)] @@ OtherEntries

\* the file system of a history directory that holds the entries named
HistoryFs(names) ==
    [q \in {<<HistoryDir>>} \cup {<<HistoryDir, name>> : name \in names} |->
        IF Len(q) = 1 THEN DirNode ELSE HistoryEntries[q[2]]]

HistoryFileSystems ==
    {NoFiles, [q \in {<<HistoryDir>>} |-> RegularNode(<< >>)]}
    \cup {HistoryFs(names) : names \in SUBSET DOMAIN HistoryEntries}

\* contents of the telemetry file
TelemetryContents ==
    {<< >>,
     <<InstanceIDKey, ":", "uuid-A", "\n">>,
     <<InstanceIDKey, ":", " ", "uuid-A", "\r", "\n">>,
     <<InstanceIDKey, ":", "{", "uuid-B", "}">>,
     <<"instanceIdcorrupt", ":", "uuid-A", "\n">>,
     <<InstanceIDKey, ":", "uuid-A", "corrupt", "\n">>,
     <<InstanceIDKey, "\n">>,
     <<"PRODUCT_FAMILY_PS", ":", " ", "1", "\n", "\n", InstanceIDKey, ":", "uuid-B", "\n">>,
     <<InstanceIDKey, ":", "bad", "\n", InstanceIDKey, ":", "uuid-A", "\n">>,
     <<InstanceIDKey, ":", "uuid-A", "\n", Blob, "\n">>,
     <<Blob, "\n", InstanceIDKey, ":", "uuid-A", "\n">>}

TelemetryFileSystems ==
    {NoFiles, [q \in {<<TelemetryDir>>} |-> DirNode]}
    \cup {[q \in {<<TelemetryDir>>, telemetryFile} |->
              IF q = telemetryFile THEN RegularNode(c) ELSE DirNode] : c \in TelemetryContents}

\* instants the run starts at, in ticks
StartTicks == {4, 5, 24}

KeepIntervals == {<<"0">>, <<"1">>, <<"1", "0">>, WrappingKeepInterval}

GenericReports ==
    {[Id |-> "r1", InstanceId |-> "uuid-A", ProductFamily |-> 1,
      Metrics |-> <<[Key |-> "k1", Value |-> "v1"], [Key |-> "k2", Value |-> ""]>>],
     [Id |-> "", InstanceId |-> "", ProductFamily |-> 0, Metrics |-> << >>]}

ReportRequests ==
    {NilReport, [Reports |-> << >>]}
    \cup {[Reports |-> rs] : rs \in SeqsUpTo(GenericReports, 2) \ {<< >>}}

CleanupPaths == {<<HistoryDir>>, <<HistoryDir, << >>>>, <<MissingDir>>}

HistoryFiles ==
    {<<HistoryDir, OldFileName>>, <<HistoryDir, <<".">>, NewFileName>>, <<MissingDir, NewFileName>>}

InstanceFiles == {telemetryFile, <<TelemetryDir, << >>, <<"telemetry_uuid">>>>}

\* operations and ticks so far
Ops == IF last = NoOp THEN 0 ELSE last.n

InitFiles ==
    /\ call = NoCall
    /\ ret = NoRet
    /\ ScanIdle
    /\ fs \in HistoryFileSystems \cup TelemetryFileSystems
    /\ now \in StartTicks
    /\ last = NoOp
    /\ AgentIdle

Do_CleanupMetricsHistory ==
    /\ Ops < MaxOps
    /\ \E dir \in CleanupPaths, keepInterval \in KeepIntervals :
        LET r == CleanupMetricsHistory(fs, dir, keepInterval, Instant(now))
        IN  /\ fs' = r.fs
            /\ last' = [op |-> "CleanupMetricsHistory", n |-> Ops + 1, before |-> fs, at |-> now,
                        dir |-> dir, keepInterval |-> keepInterval, err |-> r.err]
    /\ UNCHANGED <<call, ret, scanVars, now, agentVars>>

Do_WriteMetricsToHistory ==
    /\ Ops < MaxOps
    /\ \E historyFile \in HistoryFiles, platformReport \in ReportRequests :
        LET r == WriteMetricsToHistory(fs, historyFile, platformReport)
        IN  /\ fs' = r.fs
            /\ last' = [op |-> "WriteMetricsToHistory", n |-> Ops + 1, before |-> fs, at |-> now,
                        historyFile |-> historyFile, platformReport |-> platformReport, err |-> r.err]
    /\ UNCHANGED <<call, ret, scanVars, now, agentVars>>

Do_getInstanceID ==
    /\ Ops < MaxOps
    /\ \E instanceFile \in InstanceFiles, newInstanceID \in RandomUUIDs :
        LET r == getInstanceID(fs, instanceFile, newInstanceID)
        IN  /\ fs' = r.fs
            /\ last' = [op |-> "getInstanceID", n |-> Ops + 1, before |-> fs, at |-> now,
                        instanceFile |-> instanceFile, newInstanceID |-> newInstanceID, id |-> r.id]
    /\ UNCHANGED <<call, ret, scanVars, now, agentVars>>

\* time passes between two operations
Tick ==
    /\ \E start \in StartTicks : now >= start /\ now < start + MaxTicks
    /\ now' = now + 1
    /\ UNCHANGED <<call, ret, scanVars, fs, last, agentVars>>

NextFiles ==
    \/ Do_CleanupMetricsHistory
    \/ Do_WriteMetricsToHistory
    \/ Do_getInstanceID
    \/ Tick

SpecFiles == InitFiles /\ [][NextFiles]_vars

----------------------------------------------------------------------------
(* Properties of the history functions *)

\* the directory a path of the model names, and the file in it
DirOfPath(p) == <<p[1]>>

FileOfPath(p) == <<p[1], p[Len(p)]>>

IsDirectory(f, p) == p \in DOMAIN f /\ f[p].type = "dir"

\* the name is '<digits>-<rest>.json'
IsTimestampedJson(name) ==
    /\ Len(name) > Len(JsonExt)
    /\ SubSeq(name, Len(name) - Len(JsonExt) + 1, Len(name)) = JsonExt
    /\ Index(name, <<"-">>) > 1
    /\ \A i \in 1..(Index(name, <<"-">>) - 1) : name[i] \in Digits

\* the number before the first '-'
NameTimestamp(name) == AtoiValue(SubSeq(name, 1, Index(name, <<"-">>) - 1))

\* the file-name time is not later than the time at minus keepInterval
\* seconds; at - 9999999999 s lies before 1970, where no file name reaches
NotLaterThanKept(sec, at, keepInterval) ==
    IF keepInterval = WrappingKeepInterval THEN FALSE
    ELSE sec * TicksPerSecond <= at - AtoiValue(keepInterval) * TicksPerSecond

\* the entry the claim expects CleanupMetricsHistory to remove
ExpectedRemoved(f, dir, q, at, keepInterval) ==
    /\ Len(q) = 2 /\ <<q[1]>> = dir
    /\ f[q].type = "regular"
    /\ IsTimestampedJson(q[2])
    /\ NotLaterThanKept(NameTimestamp(q[2]), at, keepInterval)

CleanupFrame(keepIntervals) ==
    (last.op = "CleanupMetricsHistory" /\ last.keepInterval \in keepIntervals) =>
        IF ~IsDirectory(last.before, DirOfPath(last.dir))
        THEN last.err.isErr /\ fs = last.before
        ELSE /\ last.err = Nil
             /\ DOMAIN fs = {q \in DOMAIN last.before :
                                ~ExpectedRemoved(last.before, DirOfPath(last.dir), q, last.at, last.keepInterval)}
             /\ \A q \in DOMAIN fs : fs[q] = last.before[q]

\* C15: CleanupMetricsHistory removes exactly the regular '.json' files
\* whose file-name timestamp is not later than the current time minus
\* keepInterval seconds and leaves every other entry as it was; for a
\* directory that does not exist it returns an error and changes nothing.
C15_ExactlyOldHistoryFilesRemoved == CleanupFrame(KeepIntervals)

\* the same for the keepIntervals whose nanoseconds fit time.Duration
C15_ExactlyOldHistoryFilesRemovedNoWrap == CleanupFrame(KeepIntervals \ {WrappingKeepInterval})

----------------------------------------------------------------------------
(* Properties of getInstanceID *)

\* the instanceId values of the lines 'instanceId:<uuid>' of a content
ValidKeyLineValues(data) ==
    {TrimSpace(Split(OutputLines(data)[i], ":")[2]) :
        i \in {i \in 1..Len(OutputLines(data)) :
                  LET parts == Split(OutputLines(data)[i], ":")
                  IN  /\ Len(parts) = 2
                      /\ parts[1] = <<InstanceIDKey>>
                      /\ uuidValidate(TrimSpace(parts[2]))}}

\* the first line 'instanceId:<value>' of a content, 0 when it has none
FirstKeyLine(data) ==
    LET keyed == {i \in 1..Len(OutputLines(data)) :
                     LET parts == Split(OutputLines(data)[i], ":")
                     IN  Len(parts) = 2 /\ parts[1] = <<InstanceIDKey>>}
    IN  IF keyed = {} THEN 0 ELSE Min(keyed)

\* the first line 'instanceId:<value>' holds a valid UUID and no line before
\* it is too long for the scanner
FirstKeyLineValid(data) ==
    /\ FirstKeyLine(data) # 0
    /\ uuidValidate(TrimSpace(Split(OutputLines(data)[FirstKeyLine(data)], ":")[2]))
    /\ \A j \in 1..FirstKeyLine(data) : ByteLen(OutputLines(data)[j]) < MaxScanTokenSize

\* the content of the telemetry file before the call, << >> when absent
ContentBefore ==
    IF FileOfPath(last.instanceFile) \in DOMAIN last.before
    THEN last.before[FileOfPath(last.instanceFile)].data
    ELSE << >>

\* the call has left the returned ID in the file, and a call that follows
\* at once returns it again
IdSettled ==
    /\ FileOfPath(last.instanceFile) \in DOMAIN fs
    /\ last.id \in ValidKeyLineValues(fs[FileOfPath(last.instanceFile)].data)
    /\ \A u \in RandomUUIDs : getInstanceID(fs, last.instanceFile, u).id = last.id

\* the call has written a fresh ID as the whole content of the file
FreshIdWritten ==
    /\ last.id = <<last.newInstanceID>>
    /\ fs[FileOfPath(last.instanceFile)] = RegularNode(<<InstanceIDKey, ":", last.newInstanceID>>)
    /\ \A q \in DOMAIN last.before \ {FileOfPath(last.instanceFile)} : fs[q] = last.before[q]

----------------------------------------------------------------------------
(* Properties of the Debian repository resolver *)

\* what the scanner delivers from the output of the call
AptScanned == ScanLines(call.out)

\* the lines as both loops of the resolver look at them
AptTrimmed == [i \in 1..Len(AptScanned.lines) |-> Trim(AptScanned.lines[i], {" ", "'", "\t"})]

Markers == {i \in DOMAIN AptTrimmed : HasPrefix(AptTrimmed[i], <<"***">>)}

\* the line of the installed version
MarkerIndex == CHOOSE i \in Markers : \A j \in Markers : i <= j

\* the resolver has read a line '*** <version> <priority>' and returned
MarkerRead ==
    /\ Returned("parseDebianRepositoryOutput")
    /\ ~call.err.isErr
    /\ Markers # {}
    /\ \A j \in 1..MarkerIndex : ~Contains(AptTrimmed[j], UnableToLocateText)
    /\ Len(Split(AptTrimmed[MarkerIndex], " ")) = 3

MarkerPriority == Split(AptTrimmed[MarkerIndex], " ")[3]

Following == {i \in DOMAIN AptTrimmed : i > MarkerIndex}

First(S) == CHOOSE i \in S : \A j \in S : i <= j

\* '<priority> <path>', the path of a file of the host
PointsAtStatus(line) ==
    LET tokens == Split(line, " ") IN Len(tokens) = 2 /\ HasPrefix(tokens[2], <<"/">>)

\* '<priority> <url> ...' with the priority of the installed version
RemoteLines ==
    {i \in Following : LET tokens == Split(AptTrimmed[i], " ")
                       IN  /\ tokens[1] = MarkerPriority
                           /\ Len(tokens) >= 2
                           /\ ~PointsAtStatus(AptTrimmed[i])}

\* the lines that start with the text of the priority
PrefixLines == {i \in Following : HasPrefix(AptTrimmed[i], MarkerPriority)}

\* C18 (as claimed): after the '***' line, when every line fits the
\* scanner's buffer, the repository is taken from the first following line
\* made of the priority and a URL, the lines of /var/lib/dpkg/status being
\* passed over, and without such a line the answer is repository-not-found.
C18_FirstRemoteLineOfPriority ==
    (MarkerRead /\ ~AptScanned.err.isErr) =>
        IF RemoteLines = {} THEN ret = RepoResult(NilRepository, errPackageRepositoryNotFound)
        ELSE ret = parseDebianPackageRepositoryLine(AptTrimmed[First(RemoteLines)], call.isPercona)

\* C18 (amended): after the '***' line the first following line whose text
\* starts with the priority decides: a line of fewer than three fields, as
\* the one of /var/lib/dpkg/status, is answered with the unexpected-line
\* error, any other line gives the repository or the error of its URL;
\* without such a line the answer is the scanner's error, if any, or else
\* repository-not-found.
C18_FirstLineOfPriorityPrefix ==
    MarkerRead =>
        IF PrefixLines = {}
        THEN ret = RepoResult(NilRepository,
                              IF AptScanned.err.isErr THEN AptScanned.err ELSE errPackageRepositoryNotFound)
        ELSE LET line == AptTrimmed[First(PrefixLines)]
             IN  /\ ret = parseDebianPackageRepositoryLine(line, call.isPercona)
                 /\ Len(Split(line, " ")) < 3 => ret = RepoResult(NilRepository, errUnexpectedRepoLine)

\* C18 witness: under the installed version the line of /var/lib/dpkg/status
\* with the version's priority came before the line of the repository, and
\* the resolver answered with the unexpected-line error.
C18_Witness ==
    /\ MarkerRead
    /\ RemoteLines # {}
    /\ PrefixLines # {}
    /\ First(PrefixLines) < First(RemoteLines)
    /\ PointsAtStatus(AptTrimmed[First(PrefixLines)])
    /\ ret = RepoResult(NilRepository, errUnexpectedRepoLine)

----------------------------------------------------------------------------
(* Properties of the Debian version normalizer *)

VersionReturned == Returned("parseDebianPackageVersion")

Positions(s, c) == {i \in 1..Len(s) : s[i] = c}

LastPosition(s, c) == CHOOSE i \in Positions(s, c) : \A j \in Positions(s, c) : j <= i

\* the text before the last c of s; s when it has no c
BeforeLast(s, c) == IF Positions(s, c) = {} THEN s ELSE SubSeq(s, 1, LastPosition(s, c) - 1)

\* the text after the last c of s; empty when it has no c
AfterLast(s, c) == IF Positions(s, c) = {} THEN << >> ELSE SubSeq(s, LastPosition(s, c) + 1, Len(s))

UpstreamPart(body) == BeforeLast(body, "-")

RevisionPart(body) == AfterLast(body, "-")

Dashed(s) == [i \in 1..Len(s) |-> IF s[i] = "." THEN "-" ELSE s[i]]

\* '<upstream>[-<revision>]' as the Debian policy has it: the upstream
\* version starts with a digit, both are of the characters of versions
WellFormed(body) ==
    LET up  == UpstreamPart(body)
        rev == RevisionPart(body)
    IN  /\ up # << >>
        /\ up[1] \in Digits
        /\ \A i \in 1..Len(up) : up[i] \in Digits \cup Letters \cup {".", "+", "-", "~", ":", "_"}
        /\ \A i \in 1..Len(rev) : rev[i] \in Digits \cup Letters \cup {".", "+", "~", "_"}

\* the text after the epoch that is parsed: of a first-party version, the
\* text before its last '.'
ParsedBody == IF call.isPercona THEN BeforeLast(call.rest, ".") ELSE call.rest

HasColon(s) == Positions(s, ":") # {}

\* C19 (as claimed): the canonical version of a raw version '<epoch>:<rest>',
\* first-party or third-party, does not contain the epoch: with no ':' in
\* <rest>, it has no ':'.
C19_EpochNeverReturned ==
    (VersionReturned /\ call.epoch # << >>) => ~HasColon(ret.version)

\* C19 (amended): the canonical version of a raw version '<epoch>:<rest>'
\* does not contain the epoch when the parsed text is a well-formed Debian
\* version; when it is not, the canonical version is the raw version, of a
\* first-party package short of the text from its last '.', epoch included.
C19_EpochOfWellFormedVersionDropped ==
    (VersionReturned /\ call.epoch # << >>) =>
        IF WellFormed(ParsedBody) THEN ~HasColon(ret.version)
        ELSE ret.version = RawVersion(call.epoch, ParsedBody)

\* C19 witness: the third-party version '10:8+dfsg-7ubuntu0.2' was
\* normalized to '8'.
C19_Witness ==
    /\ VersionReturned
    /\ ~call.isPercona
    /\ call.epoch = <<"1", "0">>
    /\ call.rest = <<"8", "+", "dfsg", "-", "7", "ubuntu", "0", ".", "2">>
    /\ ret.version = <<"8">>

\* C20: of a first-party raw version whose text before the last '.' is a
\* well-formed Debian version, the canonical version is the upstream version
\* of that text, followed, when its revision is not empty, by '-' and the
\* revision with '-' for every '.'; '8.1.0-1-1.jammy' gives '8.1.0-1-1' and
\* '2.1.1.jammy' gives '2.1.1'.
C20_FirstPartyVersion ==
    (VersionReturned /\ call.isPercona) =>
        LET body == BeforeLast(call.rest, ".")
        IN  /\ WellFormed(body) =>
                   ret.version = IF RevisionPart(body) # << >>
                                 THEN UpstreamPart(body) \o <<"-">> \o Dashed(RevisionPart(body))
                                 ELSE UpstreamPart(body)
            /\ call.rest = <<"8", ".", "1", ".", "0", "-", "1", "-", "1", ".", "jammy">>
                   => ret.version = <<"8", ".", "1", ".", "0", "-", "1", "-", "1">>
            /\ call.rest = <<"2", ".", "1", ".", "1", ".", "jammy">>
                   => ret.version = <<"2", ".", "1", ".", "1">>

\* C20 witness: the first-party version '2:8-1.1.jammy' was normalized to
\* '8-1-1'.
C20_Witness ==
    /\ VersionReturned
    /\ call.isPercona
    /\ call.epoch = <<"2">>
    /\ call.rest = <<"8", "-", "1", ".", "1", ".", "jammy">>
    /\ ret.version = <<"8", "-", "1", "-", "1">>

\* the positions of s where the text '+dfsg' starts
DfsgPositions(s) == {i \in 1..Len(s) - 1 : s[i] = "+" /\ s[i + 1] = "dfsg"}

\* s up to its first '+dfsg'; s when it has none
BeforeFirstDfsg(s) ==
    IF DfsgPositions(s) = {} THEN s
    ELSE SubSeq(s, 1, (CHOOSE i \in DfsgPositions(s) : \A j \in DfsgPositions(s) : i <= j) - 1)

\* C21: of a third-party raw version that is a well-formed Debian version,
\* with or without epoch, the canonical version is the upstream version up
\* to its first '+dfsg', and the revision is no part of it;
\* '3.3.25+dfsg-7ubuntu0.22.04.1' gives '3.3.25'.
C21_ThirdPartyVersion ==
    (VersionReturned /\ ~call.isPercona) =>
        /\ WellFormed(call.rest) => ret.version = BeforeFirstDfsg(UpstreamPart(call.rest))
        /\ call.rest = <<"3", ".", "3", ".", "2", "5", "+", "dfsg", "-", "7", "ubuntu", "0", ".",
                         "2", "2", ".", "0", "4", ".", "1">>
               => ret.version = <<"3", ".", "3", ".", "2", "5">>

\* C21 witness: the third-party version '2:8+dfsg+dfsg-1.1' was normalized
\* to '8'.
C21_Witness ==
    /\ VersionReturned
    /\ ~call.isPercona
    /\ call.epoch = <<"2">>
    /\ call.rest = <<"8", "+", "dfsg", "+", "dfsg", "-", "1", ".", "1">>
    /\ ret.version = <<"8">>

----------------------------------------------------------------------------
(* Properties of the RHEL normalizers *)

\* C22: with a non-empty release, the RHEL version normalizer cuts the
\* release at its last '.' and returns version-release, the release with '-'
\* for every '.', when the package is first-party and the cut release is not
\* empty, and the version as given otherwise; with an empty release it
\* returns the version cut at its last '.'. Version '1.5.5' with release
\* '1.2.el9' gives '1.5.5-1-2' for a first-party package.
C22_RhelVersion ==
    Returned("parseRhelPackageVersion") =>
        /\ ret.version =
               IF call.release # << >>
               THEN IF call.isPercona /\ BeforeLast(call.release, ".") # << >>
                    THEN call.version \o <<"-">> \o Dashed(BeforeLast(call.release, "."))
                    ELSE call.version
               ELSE BeforeLast(call.version, ".")
        /\ (call.version = <<"1", ".", "5", ".", "5">> /\ call.release = <<"1", ".", "2", ".", "el9">>
              /\ call.isPercona) => ret.version = <<"1", ".", "5", ".", "5", "-", "1", "-", "2">>

\* C22 witness: the third-party version '1.5' of release '1.el9' was
\* returned as '1.5', nothing cut from it.
C22_Witness ==
    /\ Returned("parseRhelPackageVersion")
    /\ ~call.isPercona
    /\ call.version = <<"1", ".", "5">>
    /\ call.release = <<"1", ".", "el9">>
    /\ ret.version = <<"1", ".", "5">>

\* C23: the RHEL repository resolver returns the empty repository for the
\* empty text; for a third-party package the whole text as name and no
\* component; for a first-party package it cuts the text at its last '-' and
\* splits what is left at its last '-' into name and component, both empty
\* when what is left has no '-'.
C23_RhelRepository ==
    Returned("parseRhelPackageRegistry") =>
        LET remainder == BeforeLast(call.repo, "-")
        IN  ret = IF call.repo = << >> THEN [Name |-> << >>, Component |-> << >>]
                  ELSE IF ~call.isPercona THEN [Name |-> call.repo, Component |-> << >>]
                  ELSE IF Positions(remainder, "-") = {} THEN [Name |-> << >>, Component |-> << >>]
                  ELSE [Name |-> BeforeLast(remainder, "-"), Component |-> AfterLast(remainder, "-")]

\* C23 witness: the first-party repository 'ps-80-release-x86_64' was
\* resolved to name 'ps-80' and component 'release'.
C23_Witness ==
    /\ Returned("parseRhelPackageRegistry")
    /\ call.isPercona
    /\ call.repo = NamedRepositoryId
    /\ ret = [Name |-> <<"ps", "-", "80">>, Component |-> <<"release">>]

----------------------------------------------------------------------------
(* Properties of the outer loop of the Debian repository resolver *)

ResolverReturned == Returned("parseDebianRepositoryOutput") /\ ~call.err.isErr

\* every line of the output, read or not, as the loops would trim it
AptAllTrimmed ==
    [i \in 1..Len(OutputLines(call.out)) |-> Trim(OutputLines(call.out)[i], {" ", "'", "\t"})]

AllMarkers == {i \in DOMAIN AptAllTrimmed : HasPrefix(AptAllTrimmed[i], <<"***">>)}

\* the number of words of a line, white space between them
WordCount(line) ==
    Cardinality({i \in 1..Len(line) : line[i] \notin WhiteSpace /\ (i = 1 \/ line[i - 1] \in WhiteSpace)})

NotFound == RepoResult(NilRepository, errPackageRepositoryNotFound)

UnexpectedConfigured == RepoResult(NilRepository, errUnexpectedConfiguredRepoLine)

\* C24 (as claimed): an output without a line that starts with '***' is
\* answered with repository-not-found, and an output whose '***' line is
\* not of exactly three words with the unexpected-configured-line error and
\* no repository.
C24_NoMarkerOrMalformedMarker ==
    ResolverReturned =>
        /\ AllMarkers = {} => ret = NotFound
        /\ (AllMarkers # {} /\ WordCount(AptAllTrimmed[First(AllMarkers)]) # 3) => ret = UnexpectedConfigured

\* a line with the text 'Unable to locate package' was read before any
\* line after a '***' line
UnableRead ==
    \E u \in DOMAIN AptTrimmed :
        /\ Contains(AptTrimmed[u], UnableToLocateText)
        /\ \A m \in Markers : u <= m

\* C24 (amended): of the lines read before a line of 64 KiB or more, when
\* none starts with '***' the answer is repository-not-found, or the
\* scanner's error when such a long line ended the reading; repository-
\* not-found is also the answer when a line with 'Unable to locate package'
\* comes no later than the first '***' line; otherwise a first '***' line
\* that does not split at its single blanks into exactly three fields is
\* answered with the unexpected-configured-line error and no repository.
C24_NoMarkerReadOrMalformedMarker ==
    ResolverReturned =>
        IF UnableRead THEN ret = NotFound
        ELSE IF Markers = {}
        THEN ret = RepoResult(NilRepository,
                              IF AptScanned.err.isErr THEN AptScanned.err ELSE errPackageRepositoryNotFound)
        ELSE Len(Split(AptTrimmed[MarkerIndex], " ")) # 3 => ret = UnexpectedConfigured

\* C24 witness: an output with a '*** <version>' line without priority,
\* followed by a line of a repository, was answered with the
\* unexpected-configured-line error.
C24_Witness ==
    /\ ResolverReturned
    /\ ~UnableRead
    /\ Markers # {}
    /\ AptTrimmed[MarkerIndex] = Trim(AptInstalledNoPriorityLine, {" "})
    /\ \E i \in Following : AptScanned.lines[i] = AptMainLine
    /\ ret = UnexpectedConfigured

----------------------------------------------------------------------------
(* Properties of the Debian repository line *)

LineReturned == Returned("parseDebianPackageRepositoryLine")

WordStarts(line) == {i \in 1..Len(line) : line[i] \notin WhiteSpace /\ (i = 1 \/ line[i - 1] \in WhiteSpace)}

\* the n-th word of a line, white space between the words
Word(line, n) ==
    LET start == CHOOSE i \in WordStarts(line) : Cardinality({j \in WordStarts(line) : j <= i}) = n
        ends  == {j \in start..Len(line) : \A k \in start..j : line[k] \notin WhiteSpace}
    IN  SubSeq(line, start, CHOOSE j \in ends : \A k \in ends : k <= j)

\* the first segment of a path that is not empty; empty when it has none
FirstSegment(urlPath) ==
    LET segments == Split(urlPath, "/")
        filled   == {i \in 1..Len(segments) : segments[i] # << >>}
    IN  IF filled = {} THEN << >> ELSE segments[CHOOSE i \in filled : \A j \in filled : i <= j]

\* the part after '/' of '<dist>/<branch>'; empty for any other form
BranchOf(token) ==
    IF Cardinality(Positions(token, "/")) = 1 THEN AfterLast(token, "/") ELSE << >>

\* C25 (as claimed): a line of fewer than three words is answered with the
\* unexpected-line error; of any other line the name is the first segment
\* of the path of the URL in the second word and the component the part
\* after '/' of a third word of two parts, and empty otherwise.
C25_RepositoryOfLine ==
    LineReturned =>
        IF WordCount(call.line) < 3 THEN ret = RepoResult(NilRepository, errUnexpectedRepoLine)
        ELSE ret = RepoResult([Name      |-> FirstSegment(urlParse(Word(call.line, 2)).Path),
                               Component |-> BranchOf(Word(call.line, 3))], Nil)

\* C25 (amended): a line of fewer than three fields, a single blank between
\* any two, is answered with the unexpected-line error; any other line with
\* the error of the URL parser when the second field is no URL, and else
\* with the first segment of the path of that URL as name and, as
\* component, the part after '/' of a third field of two parts, 'release'
\* standing for 'main' of a first-party package, and empty otherwise.
C25_RepositoryOfFields ==
    LineReturned =>
        LET fields == Split(call.line, " ")
            branch == BranchOf(fields[3])
        IN  IF Len(fields) < 3 THEN ret = RepoResult(NilRepository, errUnexpectedRepoLine)
            ELSE IF ~urlParse(fields[2]).ok THEN ret = RepoResult(NilRepository, errURLParse)
            ELSE ret = RepoResult([Name      |-> FirstSegment(urlParse(fields[2]).Path),
                                   Component |-> IF call.isPercona /\ branch = <<"main">>
                                                 THEN <<"release">> ELSE branch], Nil)

\* C25 witness: the line '5 http://h//ps/ a/b/c a' of a first-party package
\* gave the name 'ps' and no component.
C25_Witness ==
    /\ LineReturned
    /\ call.isPercona
    /\ call.line = <<"5", " ", "http://", "h", "/", "/", "ps", "/", " ", "a", "/", "b", "/", "c", " ", "a">>
    /\ ret = RepoResult([Name |-> <<"ps">>, Component |-> << >>], Nil)

----------------------------------------------------------------------------
(* Properties of the RHEL backend selection *)

ManagerReturned == Returned("getRhelPackageManagerCmd")

\* 'repoquery', 'yum repoquery', 'dnf repoquery': the binaries, in order
ProbeOrder == <<"repoquery", "yum", "dnf">>

\* the first binary of the list that is on PATH
FirstOnPath(binaries) ==
    binaries[CHOOSE i \in 1..Len(binaries) :
                 /\ binaries[i] \in call.onPath
                 /\ \A j \in 1..(i - 1) : binaries[j] \notin call.onPath]

NoneOnPath(binaries) == \A i \in 1..Len(binaries) : binaries[i] \notin call.onPath

\* the command is the binary itself, or its repoquery subcommand, with a
\* query format and --installed
CommandOf(binary, cmd) ==
    \E format \in {newQueryFormat, oldQueryFormat} :
        cmd = (IF binary = "repoquery" THEN << >> ELSE <<binary>>)
              \o <<"repoquery", "--qf", format, "--installed">>

SelectionOver(binaries) ==
    IF NoneOnPath(binaries) THEN ret = [cmd |-> << >>, err |-> errPackageManagerNotFound]
    ELSE ~ret.err.isErr /\ CommandOf(FirstOnPath(binaries), ret.cmd)

\* C26 (as claimed): the selection returns the command of the first of
\* repoquery, yum and dnf that is on PATH, and fails with the
\* no-package-manager condition exactly when none of them is.
C26_FirstOfThreeOnPath == ManagerReturned => SelectionOver(ProbeOrder)

\* the hosts given the single candidate 'repoquery'
SingleCandidateHost(os) ==
    \/ HasPrefix(ToLower(os), <<"c", "e", "n", "t", "o", "s">>)
    \/ HasPrefix(ToLower(os), <<"a", "m", "a", "z", "o", "n", " ", "l", "i", "n", "u", "x", " ", "2">>)

\* C26 (amended): on a host whose lower-cased OS name starts with 'centos'
\* or 'amazon linux 2' the only candidate is repoquery, returned when it is
\* on PATH, the no-package-manager condition otherwise; on every other
\* host the selection returns the command of the first of repoquery, yum
\* and dnf that is on PATH and fails with that condition exactly when none
\* of them is.
C26_FirstCandidateOnPath ==
    ManagerReturned =>
        SelectionOver(IF SingleCandidateHost(call.os) THEN <<"repoquery">> ELSE ProbeOrder)

\* C26 witness: on Rocky Linux 9 with yum and dnf on PATH, and no
\* repoquery, the selection returned 'yum repoquery'.
C26_Witness ==
    /\ ManagerReturned
    /\ call.os = RockyName
    /\ call.onPath = {"yum", "dnf", "rpm"}
    /\ ret.cmd = <<"yum", "repoquery", "--qf", newQueryFormat, "--installed">>

\* C27: the command selected has the old query format exactly on the hosts
\* CentOS 7 and Amazon Linux 2, and the new one on every other host of the
\* RHEL family.
C27_OldFormatOnlyOnOldHosts ==
    (ManagerReturned /\ ~ret.err.isErr) =>
        /\ (\E i \in 1..Len(ret.cmd) : ret.cmd[i] = oldQueryFormat) <=> call.os \in OldRepoqueryHosts
        /\ (\E i \in 1..Len(ret.cmd) : ret.cmd[i] = newQueryFormat) <=> call.os \notin OldRepoqueryHosts

----------------------------------------------------------------------------
(* The agent's main loop: cmd/telemetry-agent/main.go, utils/signal_runner.go *)

\* the bytes of the symbols file names are written with
ByteOf ==
    ("-" :> 45) @@ ("." :> 46) @@ ("1" :> 49) @@ ("2" :> 50) @@ ("5" :> 53) @@ ("9" :> 57)
    @@ ("a" :> 97) @@ ("b" :> 98) @@ ("c" :> 99) @@ ("e" :> 101) @@ ("j" :> 106) @@ ("n" :> 110)
    @@ ("o" :> 111) @@ ("s" :> 115) @@ ("t" :> 116) @@ ("x" :> 120)

\* a < b as Go compares strings: byte by byte, a proper prefix first
RECURSIVE NameLess(_, _)
NameLess(a, b) ==
    IF Len(b) = 0 THEN FALSE
    ELSE IF Len(a) = 0 THEN TRUE
    ELSE IF a[1] # b[1] THEN ByteOf[a[1]] < ByteOf[b[1]]
    ELSE NameLess(Tail(a), Tail(b))

\* os.ReadDir returns the entries of a directory sorted by file name
RECURSIVE SortNames(_)
SortNames(names) ==
    IF names = {} THEN << >>
    ELSE LET first == CHOOSE n \in names : \A m \in names \ {n} : NameLess(n, m)
         IN  <<first>> \o SortNames(names \ {first})

\* json.NewDecoder(file).Decode(&tmpMetrics) succeeds: the content is one
\* JSON object, a sequence of key-value pairs
IsJsonObject(data) == \A i \in 1..Len(data) : Len(data[i]) = 2

\* parseMetricsFile(path): the File it returns, or the error.  A value is
\* kept as the JSON text json.Marshal writes for it
parseMetricsFile(f, filePath) ==
    LET cleanPath == Clean(filePath)
        name      == Base(cleanPath)
        prefix    == Split(TrimSuffix(name, Ext(name)), "-")[1]
    IN  IF ~IsJsonObject(f[cleanPath].data)
        THEN [file |-> NoCall, err |-> Err(<<"invalid character">>)]
        ELSE IF ~AtoiOk(prefix)
        THEN [file |-> NoCall, err |-> Err(<<"strconv.Atoi: parsing">>)]
        ELSE [file |-> [Filename      |-> cleanPath,
                        Timestamp     |-> Unix(AtoiUnsigned(prefix)),
                        ProductFamily |-> 0,
                        Metrics       |-> [i \in 1..Len(f[cleanPath].data) |->
                                                [Key   |-> f[cleanPath].data[i][1],
                                                 Value |-> f[cleanPath].data[i][2]]]],
              err |-> Nil]

\* the entries of the directory that processMetricsDirectory appends
MetricsFileNames(f, dir, names) ==
    SelectPositions(Len(names),
        {i \in 1..Len(names) :
            /\ f[Append(dir, names[i])].type = "regular"
            /\ Ext(names[i]) = JsonExt
            /\ ~parseMetricsFile(f, Append(dir, names[i])).err.isErr})

\* the Files of the entries kept, each with the product family of the pillar
MetricsFilesOf(f, dir, names, kept, productFamily) ==
    [k \in 1..Len(kept) |->
        [parseMetricsFile(f, Append(dir, names[kept[k]])).file EXCEPT !.ProductFamily = productFamily]]

\* processMetricsDirectory(path, productFamily): no file when the directory
\* is absent or cannot be read
processMetricsDirectory(f, dirPath, productFamily) ==
    LET cleanMetricsDirectoryPath == Clean(dirPath)
    IN  IF cleanMetricsDirectoryPath \notin DOMAIN f THEN [files |-> << >>, err |-> Nil]
        ELSE IF f[cleanMetricsDirectoryPath].type # "dir"
        THEN [files |-> << >>, err |-> Wrap(<<"can't read directory with metric files">>, errNotADirectory)]
        ELSE [files |-> MetricsFilesOf(f, cleanMetricsDirectoryPath,
                                       SortNames(ReadDir(f, cleanMetricsDirectoryPath)),
                                       MetricsFileNames(f, cleanMetricsDirectoryPath,
                                                        SortNames(ReadDir(f, cleanMetricsDirectoryPath))),
                                       productFamily),
              err |-> Nil]

\* the configuration: c.Telemetry
PSMetricsPath == <<<<"p", "s">>>>

PXCMetricsPath == <<<<"p", "x", "c">>>>

PSMDBMetricsPath == <<<<"p", "s", "m", "d", "b">>>>

HistoryPath == <<HistoryDir>>

HistoryKeepInterval == <<"1", "0">>

\* processPillarsMetrics(c): the files of the pillars, in the order PS, PXC,
\* PSMDB; a directory that cannot be read adds nothing
processPillarsMetrics(f) ==
    processMetricsDirectory(f, PSMetricsPath, 1).files
    \o processMetricsDirectory(f, PXCMetricsPath, 2).files
    \o processMetricsDirectory(f, PSMDBMetricsPath, 3).files

\* what ScrapeHostMetrics finds besides the instance ID
HostMetrics == <<[Key |-> "OS", Value |-> "ubuntu"]>>

\* the report processMetrics builds for one pillar file: host metrics, then
\* the metrics of the file
ReportOf(pillarM, instanceID) ==
    [Reports |-> <<[Id            |-> "r1",
                    InstanceId    |-> instanceID,
                    ProductFamily |-> pillarM.ProductFamily,
                    Metrics       |-> HostMetrics \o pillarM.Metrics]>>]

\* filepath.Join(c.Telemetry.HistoryPath, filepath.Base(pillarM.Filename))
HistoryFileOf(pillarM) == Append(HistoryPath, Base(pillarM.Filename))

\* results of platformClient.SendTelemetry: context.Canceled is returned
\* only for a context that is cancelled
SendResults == {"ok", "failed"} \cup (IF cancelled THEN {"canceled"} ELSE {})

\* the loop of processMetrics goes on to the next pillar file
Continue ==
    /\ pillarMetrics' = Tail(pillarMetrics)
    /\ runPc' = IF Len(pillarMetrics) = 1 THEN "select" ELSE "send"

PillarDirs == {PSMetricsPath, PXCMetricsPath}

\* a pillar file that is no JSON object
CorruptData == <<<<"{">>>>

PillarData == <<<<"uptime", "5">>>>

BadPrefixName == <<"x", "-", "c">> \o JsonExt

\* the pillar files a run may start with
PillarEntries ==
    {<<PSMetricsPath[1], OldFileName>>, <<PSMetricsPath[1], NewFileName>>, <<PXCMetricsPath[1], OldFileName>>}

\* the file system of the pillar directories: the files named, with two
\* entries of the PS directory that are no metrics files
PillarFs(entries) ==
    [q \in {p \in PillarDirs : \E e \in entries : e[1] = p[1]} |-> DirNode]
    @@ [q \in entries |-> RegularNode(PillarData)]
    @@ (IF <<PSMetricsPath[1], NewFileName>> \in entries
        THEN [q \in {<<PSMetricsPath[1], BadPrefixName>>} |-> RegularNode(PillarData)]
             @@ [q \in {<<PSMetricsPath[1], OlderFileName>>} |-> RegularNode(CorruptData)]
        ELSE NoFiles)

\* the history directory main has created, one that was replaced by a
\* regular file, one that was removed
AgentHistoryFileSystems ==
    {[q \in {HistoryPath} |-> DirNode], [q \in {HistoryPath} |-> RegularNode(<< >>)], NoFiles}

AgentTelemetryFileSystems ==
    {NoFiles,
     [q \in {<<TelemetryDir>>, telemetryFile} |->
         IF q = telemetryFile THEN RegularNode(<<InstanceIDKey, ":", "uuid-A", "\n">>) ELSE DirNode]}

AgentFileSystems ==
    {PillarFs(entries) @@ h @@ t :
        entries \in SUBSET PillarEntries, h \in AgentHistoryFileSystems, t \in AgentTelemetryFileSystems}

Signals == {"SIGINT", "SIGTERM"}

\* main has called SignalRunner, which has made the channel, called
\* signal.Notify and started the goroutine of the runner
InitAgent ==
    /\ call = NoCall
    /\ ret = NoRet
    /\ ScanIdle
    /\ fs \in AgentFileSystems
    /\ now = 24
    /\ last = NoOp
    /\ mainPc = "signals"
    /\ runPc = "start"
    /\ signals = << >>
    /\ received = 0
    /\ cancelled = FALSE
    /\ wg = 1
    /\ tickReady = FALSE
    /\ hostInstanceID = << >>
    /\ pillarMetrics = << >>
    /\ events = << >>
    /\ iterations = 0

\* the process is sent SIGINT or SIGTERM while signal.Notify is in effect:
\* the signal is put in the channel, or dropped when the channel is full
Signal ==
    /\ mainPc = "signals"
    /\ received < MaxSignals
    /\ \E s \in Signals : signals' = IF Len(signals) < 1 THEN Append(signals, s) ELSE signals
    /\ received' = received + 1
    /\ UNCHANGED <<call, ret, scanVars, fileVars, mainPc, runPc, cancelled, wg, tickReady, hostInstanceID,
                   pillarMetrics, events, iterations>>

\* the ticker sends a tick on ticker.C, and drops it when one is waiting
TickerFires ==
    /\ runPc \notin {"start", "exited"}
    /\ ~tickReady
    /\ iterations < MaxIterations
    /\ tickReady' = TRUE
    /\ UNCHANGED <<call, ret, scanVars, fileVars, mainPc, runPc, signals, received, cancelled, wg,
                   hostInstanceID, pillarMetrics, events, iterations>>

\* signal_runner.go:37-39: s := <-signals; signal.Stop(signals)
Main_Receive ==
    /\ mainPc = "signals"
    /\ Len(signals) > 0
    /\ signals' = Tail(signals)
    /\ mainPc' = "stopper"
    /\ UNCHANGED <<call, ret, scanVars, fileVars, runPc, received, cancelled, wg, tickReady, hostInstanceID,
                   pillarMetrics, events, iterations>>

\* main.go:580-581: the stopper calls cancel()
Main_Cancel ==
    /\ mainPc = "stopper"
    /\ cancelled' = TRUE
    /\ mainPc' = "wait"
    /\ UNCHANGED <<call, ret, scanVars, fileVars, runPc, signals, received, wg, tickReady, hostInstanceID,
                   pillarMetrics, events, iterations>>

\* Main_Wait without the wait for the WaitGroup
Main_Wait_NoWait ==
    /\ mainPc = "wait"
    /\ mainPc' = "finished"
    /\ UNCHANGED <<call, ret, scanVars, fileVars, runPc, signals, received, cancelled, wg, tickReady,
                   hostInstanceID, pillarMetrics, events, iterations>>

\* main.go:582-585: wg.Wait() returns, SignalRunner returns, main logs
\* "finished"
Main_Wait ==
    /\ mainPc = "wait"
    /\ wg = 0
    /\ mainPc' = "finished"
    /\ UNCHANGED <<call, ret, scanVars, fileVars, runPc, signals, received, cancelled, wg, tickReady,
                   hostInstanceID, pillarMetrics, events, iterations>>

\* main.go:551-556: the runner creates the ticker and enters the loop
Run_Start ==
    /\ runPc = "start"
    /\ runPc' = "select"
    /\ UNCHANGED <<call, ret, scanVars, fileVars, mainPc, signals, received, cancelled, wg, tickReady,
                   hostInstanceID, pillarMetrics, events, iterations>>

\* main.go:558-563: select takes <-ctx.Done(): ticker.Stop(), wg.Done(),
\* return
Run_Exit ==
    /\ runPc = "select"
    /\ cancelled
    /\ wg' = wg - 1
    /\ runPc' = "exited"
    /\ UNCHANGED <<call, ret, scanVars, fileVars, mainPc, signals, received, cancelled, tickReady,
                   hostInstanceID, pillarMetrics, events, iterations>>

\* main.go:564-575, 420-440: select takes <-ticker.C: the history is
\* cleaned up, processMetrics lists the pillar files and, when there are
\* some, scrapes the host metrics
Run_Iterate ==
    /\ runPc = "select"
    /\ tickReady
    /\ tickReady' = FALSE
    /\ iterations' = iterations + 1
    /\ events' = << >>
    /\ LET cleaned == CleanupMetricsHistory(fs, HistoryPath, HistoryKeepInterval, Instant(now)).fs
       IN  /\ pillarMetrics' = processPillarsMetrics(cleaned)
           /\ IF Len(processPillarsMetrics(cleaned)) = 0
              THEN /\ fs' = cleaned
                   /\ runPc' = "select"
                   /\ UNCHANGED hostInstanceID
              ELSE \E newInstanceID \in RandomUUIDs :
                    /\ fs' = getInstanceID(cleaned, telemetryFile, newInstanceID).fs
                    /\ hostInstanceID' = getInstanceID(cleaned, telemetryFile, newInstanceID).id
                    /\ runPc' = "send"
    /\ UNCHANGED <<call, ret, scanVars, now, last, mainPc, signals, received, cancelled, wg>>

\* main.go:474-491: SendTelemetry for the pillar file at hand; on
\* context.Canceled processMetrics returns, on another error it goes on to
\* the next file
Run_Send ==
    /\ runPc = "send"
    /\ \E result \in SendResults :
        /\ events' = Append(events, [op |-> "send", file |-> Head(pillarMetrics).Filename,
                                     ok |-> result = "ok"])
        /\ CASE result = "ok"       -> runPc' = "write" /\ UNCHANGED pillarMetrics
             [] result = "canceled" -> runPc' = "select" /\ pillarMetrics' = << >>
             [] result = "failed"   -> Continue
    /\ UNCHANGED <<call, ret, scanVars, fileVars, mainPc, signals, received, cancelled, wg, tickReady,
                   hostInstanceID, iterations>>

\* Run_WriteHistory going on to remove the pillar file whether or not the
\* history file was written
Run_WriteHistory_RemoveAnyway ==
    /\ runPc = "write"
    /\ LET pillarM == Head(pillarMetrics)
           written == WriteMetricsToHistory(fs, HistoryFileOf(pillarM), ReportOf(pillarM, hostInstanceID))
       IN  \E writeFails \in BOOLEAN, truncated \in BOOLEAN :
            /\ writeFails => ~written.err.isErr
            /\ truncated => writeFails
            /\ fs' = IF ~writeFails THEN written.fs
                     ELSE IF truncated THEN WriteFile(fs, HistoryFileOf(pillarM), << >>)
                     ELSE fs
            /\ events' = Append(events, [op |-> "write", file |-> pillarM.Filename,
                                         ok |-> ~writeFails /\ ~written.err.isErr])
            /\ runPc' = "remove"
            /\ UNCHANGED pillarMetrics
    /\ UNCHANGED <<call, ret, scanVars, now, last, mainPc, signals, received, cancelled, wg, tickReady,
                   hostInstanceID, iterations>>

\* main.go:494-505: the report sent is written to the history file; the
\* write may also fail in os.WriteFile, which then leaves the file as it
\* was or empty
Run_WriteHistory ==
    /\ runPc = "write"
    /\ LET pillarM == Head(pillarMetrics)
           written == WriteMetricsToHistory(fs, HistoryFileOf(pillarM), ReportOf(pillarM, hostInstanceID))
       IN  \E writeFails \in BOOLEAN, truncated \in BOOLEAN :
            /\ writeFails => ~written.err.isErr
            /\ truncated => writeFails
            /\ fs' = IF ~writeFails THEN written.fs
                     ELSE IF truncated THEN WriteFile(fs, HistoryFileOf(pillarM), << >>)
                     ELSE fs
            /\ events' = Append(events, [op |-> "write", file |-> pillarM.Filename,
                                         ok |-> ~writeFails /\ ~written.err.isErr])
            /\ IF writeFails \/ written.err.isErr
               THEN Continue
               ELSE runPc' = "remove" /\ UNCHANGED pillarMetrics
    /\ UNCHANGED <<call, ret, scanVars, now, last, mainPc, signals, received, cancelled, wg, tickReady,
                   hostInstanceID, iterations>>

\* main.go:507-514: os.Remove of the pillar file, which may fail; then the
\* next file
Run_Remove ==
    /\ runPc = "remove"
    /\ \E removed \in BOOLEAN :
        /\ fs' = IF removed THEN Remove(fs, Head(pillarMetrics).Filename) ELSE fs
        /\ events' = Append(events, [op |-> "remove", file |-> Head(pillarMetrics).Filename,
                                     ok |-> removed])
    /\ Continue
    /\ UNCHANGED <<call, ret, scanVars, now, last, mainPc, signals, received, cancelled, wg, tickReady,
                   hostInstanceID, iterations>>

NextAgent ==
    \/ Signal
    \/ TickerFires
    \/ Main_Receive
    \/ Main_Cancel
    \/ Main_Wait
    \/ Run_Start
    \/ Run_Exit
    \/ Run_Iterate
    \/ Run_Send
    \/ Run_WriteHistory
    \/ Run_Remove

SpecAgent == InitAgent /\ [][NextAgent]_vars

\* the goroutines are scheduled, so that main and an iteration under way go
\* on; a select whose Done case is ready again and again takes it in the
\* end, as it picks among the ready cases at random; nothing is assumed
\* about the ticker or about the ticker case of the select
SpecAgentFair ==
    /\ SpecAgent
    /\ WF_vars(Main_Receive \/ Main_Cancel \/ Main_Wait)
    /\ WF_vars(Run_Start \/ Run_Send \/ Run_WriteHistory \/ Run_Remove)
    /\ SF_vars(Run_Exit)

----------------------------------------------------------------------------
(* Properties of processMetrics *)

\* the files of the pillar directories
PillarFilesOf(f) == {q \in DOMAIN f : Len(q) = 2 /\ <<q[1]>> \in PillarDirs}

\* the product family of the pillar whose directory holds the file
PillarFamily(p) == IF <<p[1]>> = PSMetricsPath THEN 1 ELSE 2

\* the positions of the events of one kind about one file
EventsOf(op, p, ok) ==
    {i \in 1..Len(events) : events[i].op = op /\ events[i].file = p /\ events[i].ok = ok}

\* in the iteration, the report of p was sent and then written to history
SentThenWritten(p) ==
    \E i \in EventsOf("send", p, TRUE), j \in EventsOf("write", p, TRUE) : i < j

\* the history directory of f holds, under the name of p, one report of
\* the pillar of p with every metric of p
InHistory(f, p) ==
    /\ <<HistoryDir, p[2]>> \in DOMAIN f
    /\ f[<<HistoryDir, p[2]>>].type = "regular"
    /\ LET reports == Unmarshal(f[<<HistoryDir, p[2]>>].data).Reports
       IN  /\ Len(reports) = 1
           /\ reports[1].ProductFamily = PillarFamily(p)
           /\ \A i \in 1..Len(f[p].data) :
                \E m \in 1..Len(reports[1].Metrics) :
                    reports[1].Metrics[m] = [Key |-> f[p].data[i][1], Value |-> f[p].data[i][2]]

\* a step removes a pillar file only after the send and the write
RemovedOnlyAfterSendAndWrite ==
    \A p \in PillarFilesOf(fs) : p \notin DOMAIN fs' => SentThenWritten(p) /\ InHistory(fs, p)

\* a step in which a send fails writes nothing
FailedSendWritesNothing ==
    (Len(events') = Len(events) + 1 /\ events'[Len(events')].op = "send" /\ ~events'[Len(events')].ok)
        => fs' = fs

\* a file whose send or write failed in the iteration is in place
FailedLeftInPlace ==
    \A i \in 1..Len(events) :
        (events[i].op \in {"send", "write"} /\ ~events[i].ok) => events[i].file \in DOMAIN fs

\* the iteration tries no write and no remove for a file whose send failed,
\* and no remove for a file whose write failed
FailureEndsTheFile ==
    \A i \in 1..Len(events) :
        (events[i].op \in {"send", "write"} /\ ~events[i].ok) =>
            \A j \in 1..Len(events) : (j > i) => events[j].file # events[i].file

\* C28: within an iteration a pillar file is removed only after its report
\* was sent and, after that, written to the history directory; a file
\* whose send or history write failed is left in place, and nothing is
\* written to the history for a report whose send failed.
C28_RemovedOnlyAfterSentAndWritten ==
    /\ [](FailedLeftInPlace /\ FailureEndsTheFile)
    /\ [][RemovedOnlyAfterSendAndWrite /\ FailedSendWritesNothing]_vars

\* C28 witness: in one iteration the send of the first PS file failed, the
\* second PS file was sent, written to the history and removed, and the
\* history write of the PXC file failed: the first and the third are in
\* place, the second is only in the history.
C28_Witness ==
    /\ Len(events) = 6
    /\ EventsOf("send", <<PSMetricsPath[1], OldFileName>>, FALSE) = {1}
    /\ EventsOf("remove", <<PSMetricsPath[1], NewFileName>>, TRUE) = {4}
    /\ EventsOf("write", <<PXCMetricsPath[1], OldFileName>>, FALSE) = {6}
    /\ <<PSMetricsPath[1], OldFileName>> \in DOMAIN fs
    /\ <<PXCMetricsPath[1], OldFileName>> \in DOMAIN fs
    /\ <<PSMetricsPath[1], NewFileName>> \notin DOMAIN fs
    /\ <<HistoryDir, NewFileName>> \in DOMAIN fs
    /\ <<HistoryDir, OldFileName>> \notin DOMAIN fs

----------------------------------------------------------------------------
(* Properties of the shutdown *)

\* main is in the stopper, or past it
StopperInvoked == mainPc \in {"stopper", "wait", "finished"}

\* the process was sent SIGINT or SIGTERM
SignalReceived == received > 0

\* the runner has left its loop through the Done case of the select
RunnerExited == runPc = "exited"

\* what holds at every moment of the shutdown: no stopper and no
\* cancellation without a signal, no exit of the loop without the
\* cancellation, no return of SignalRunner before the exit of the loop
ShutdownInOrder ==
    /\ StopperInvoked => SignalReceived
    /\ cancelled => StopperInvoked
    /\ RunnerExited => cancelled
    /\ mainPc = "finished" => RunnerExited

\* C29: the stopper is never invoked before SIGINT or SIGTERM is received;
\* after such a signal the context is cancelled; SignalRunner does not
\* return, and main does not reach "finished", before the loop of the
\* runner has observed the cancellation and exited; and once the context
\* is cancelled the loop does exit, after which main reaches "finished".
C29_GracefulShutdown ==
    /\ []ShutdownInOrder
    /\ (SignalReceived ~> cancelled)
    /\ (cancelled ~> RunnerExited)
    /\ (SignalReceived ~> mainPc = "finished")

\* C29 witness: main has finished after one signal that arrived during the
\* only iteration: of two pillar files the iteration handled the first,
\* whose send was cancelled, and the loop then exited.
C29_Witness ==
    /\ mainPc = "finished"
    /\ RunnerExited
    /\ received = 1
    /\ iterations = 1
    /\ Len(processPillarsMetrics(fs)) = 2
    /\ Len(events) = 1
    /\ events[1].op = "send"
    /\ ~events[1].ok

----------------------------------------------------------------------------
(* Properties of the version table the Debian repository resolver reads *)

\* a line that opens the entry of a version: '*** <version> <priority>' or
\* '<version> <priority>'
IsVersionLine(line) ==
    \/ HasPrefix(line, <<"***">>)
    \/ LET tokens == Split(line, " ") IN Len(tokens) = 2 /\ AtoiOk(tokens[2])

\* the lines of the entry of the installed version: those after the '***'
\* line and before the next version line
OwnEntry == {i \in Following : \A j \in Following : j <= i => ~IsVersionLine(AptTrimmed[j])}

OwnPrefixLines == {i \in OwnEntry : HasPrefix(AptTrimmed[i], MarkerPriority)}

\* C30: the repository the resolver returns is parsed from a line of the
\* entry of the installed version, between the '***' line and the next
\* version line; when that entry has no line of the priority, no
\* repository is returned, whatever the entries of other versions hold.
C30_RepositoryFromOwnEntry ==
    MarkerRead =>
        IF OwnPrefixLines = {} THEN ret.err.isErr
        ELSE ret = parseDebianPackageRepositoryLine(AptTrimmed[First(OwnPrefixLines)], call.isPercona)

====
